---------------------------- MODULE Spec2Model ----------------------------
(***************************************************************************)
(* A model of the source-code mutation engine of goprojectstarter:         *)
(*   - appendToFile, the anchor-based text injector                        *)
(*       (internal/llm/gemini/client.go:607-658)                           *)
(*   - smartReplaceOrAddMethods, the AST-based structural merger           *)
(*       (internal/command/gen_logic.go:447-520)                           *)
(*   - injectGeneratedCode / applyGeneratedCode, the orchestrators         *)
(*       (client.go:539-605, gen_logic.go:399-430)                         *)
(*                                                                         *)
(* File contents are sequences of tokens.  A token is a model string that  *)
(* stands for one byte or for one fixed run of bytes; bytes.Index and      *)
(* slicing are modelled on these sequences with Go's 0-based offsets.      *)
(***************************************************************************)
EXTENDS Integers, Sequences, FiniteSets, TLC

VARIABLES
    files,   \* the working tree: file key -> file record
    pre,     \* the working tree before the last operation
    op,      \* the last operation: its arguments and what it returned
    pc,      \* position of the running orchestrator
    run,     \* inputs of the running (or last) orchestrator run
    dirs     \* the directories of the working tree the code looks at

vars == <<files, pre, op, pc, run, dirs>>

\* ------------------------------------------------------------------------
\* Bounds
\* ------------------------------------------------------------------------

\* longest initial content, in tokens, of a text file
MaxLen == 2

\* longest content, in tokens, on which a further call is explored
MaxContent == 3

\* ------------------------------------------------------------------------
\* Sequences as Go byte slices
\* ------------------------------------------------------------------------

\* all sequences over S of length at most n
SeqsUpTo(S, n) == UNION {[1..k -> S] : k \in 0..n}

\* s[i:j] with Go's 0-based half-open offsets
Slice(s, i, j) == SubSeq(s, i + 1, j)

\* s[i:]
SliceFrom(s, i) == SubSeq(s, i + 1, Len(s))

\* sub occurs in s at 0-based offset i
OccursAt(s, sub, i) ==
    /\ i >= 0
    /\ i + Len(sub) <= Len(s)
    /\ Slice(s, i, i + Len(sub)) = sub

\* a mutant of Index: the last occurrence instead of the first
LastIndex(s, sub) ==
    LET hits == {i \in 0..(Len(s) - Len(sub)) : OccursAt(s, sub, i)}
    IN  IF hits = {} THEN -1
        ELSE CHOOSE i \in hits : \A j \in hits : j <= i

\* bytes.Index: offset of the first occurrence of sub in s, -1 when none
Index(s, sub) ==
    LET hits == {i \in 0..(Len(s) - Len(sub)) : OccursAt(s, sub, i)}
    IN  IF hits = {} THEN -1
        ELSE CHOOSE i \in hits : \A j \in hits : i <= j

\* bytes.Contains
Contains(s, sub) == Index(s, sub) >= 0

\* ------------------------------------------------------------------------
\* The file system as the code uses it: os.ReadFile, os.WriteFile
\* ------------------------------------------------------------------------

\* A file record is [exists, perm, content]:
\*   perm "rw"  readable and writable (or, absent: can be created)
\*   perm "ro"  reads succeed, os.WriteFile fails (absent: cannot be created)
\*   perm "wo"  os.ReadFile fails with a permission error, writes succeed
Absent(perm) == [exists |-> FALSE, perm |-> perm, content |-> <<>>]

Present(perm, content) == [exists |-> TRUE, perm |-> perm, content |-> content]

\* the error of os.ReadFile: "nil", "ENOENT" or "EACCES"
ReadError(f) ==
    IF ~f.exists THEN "ENOENT"
    ELSE IF f.perm = "wo" THEN "EACCES"
    ELSE "nil"

\* os.ReadFile: the error and the bytes read
ReadFile(f) ==
    IF ReadError(f) # "nil"
    THEN [err |-> ReadError(f), data |-> <<>>]
    ELSE [err |-> "nil", data |-> f.content]

\* os.IsNotExist
IsNotExist(err) == err = "ENOENT"

\* a mutant of os.WriteFile: a write that fails leaves an empty file behind
WriteFileTruncating(f, data) ==
    IF f.perm = "ro"
    THEN [err |-> TRUE, file |-> Present(f.perm, <<>>)]
    ELSE [err |-> FALSE, file |-> Present(f.perm, data)]

\* os.WriteFile: creates or truncates, then holds exactly data
WriteFile(f, data) ==
    IF f.perm = "ro"
    THEN [err |-> TRUE, file |-> f]
    ELSE [err |-> FALSE, file |-> Present(f.perm, data)]

\* ------------------------------------------------------------------------
\* text/template, as far as anchors use it
\* ------------------------------------------------------------------------

\* A template is a sequence of tokens; three tokens are template actions:
FieldEntityName == "{{.EntityName}}"    \* renders info.EntityName
FieldMissing    == "{{.Missing}}"       \* no such field: Execute fails
OpenAction      == "{{"                 \* unclosed action: Parse fails

\* template.Parse fails
TemplateParseFails(tmpl) == \E i \in 1..Len(tmpl) : tmpl[i] = OpenAction

\* template.Execute fails
TemplateExecFails(tmpl) == \E i \in 1..Len(tmpl) : tmpl[i] = FieldMissing

RECURSIVE Render(_, _)
\* the bytes template.Execute writes for tmpl against info
Render(tmpl, info) ==
    IF tmpl = <<>> THEN <<>>
    ELSE (IF Head(tmpl) = FieldEntityName THEN info.EntityName ELSE <<Head(tmpl)>>)
         \o Render(Tail(tmpl), info)

\* ------------------------------------------------------------------------
\* appendToFile (client.go:607-658)
\* ------------------------------------------------------------------------

AppendToEnd      == "AppendToEnd"
InsertAfterBrace == "InsertAfterBrace"
InsertAfterLine  == "InsertAfterLine"
Modes == {AppendToEnd, InsertAfterBrace, InsertAfterLine}

\* lines 608-615: the content appendToFile works on, or the read error
ReadForAppend(f, mode) ==
    LET r == ReadFile(f) IN
    IF r.err # "nil" /\ mode # AppendToEnd /\ ~IsNotExist(r.err)
    THEN [err |-> TRUE, content |-> <<>>]
    ELSE [err |-> FALSE, content |-> r.data]

\* a mutant of BracePos: the brace is looked for after the anchor's end
BracePosAfterAnchor(content, anchorPos, renderedAnchor) ==
    LET from == anchorPos + Len(renderedAnchor)
        p    == Index(SliceFrom(content, from), <<"{">>)
    IN  IF p = -1 THEN -1 ELSE p + Len(renderedAnchor)

\* lines 639-640: offset of the first "{" in content[anchorPos:], -1 if none
BracePos(content, anchorPos, renderedAnchor) ==
    Index(SliceFrom(content, anchorPos), <<"{">>)

\* lines 633-647: the insertion offset, -1 when the anchor or brace is missing
InsertionPoint(content, renderedAnchor, mode) ==
    LET anchorPos == Index(content, renderedAnchor)
        bracePos  == BracePos(content, anchorPos, renderedAnchor)
    IN  IF anchorPos = -1 THEN -1
        ELSE IF mode = InsertAfterBrace
             THEN (IF bracePos = -1 THEN -1 ELSE anchorPos + bracePos + 1)
             ELSE anchorPos + Len(renderedAnchor)

\* lines 648-655: content with the snippet spliced in at insertionPoint
Splice(content, insertionPoint, codeSnippet, mode) ==
    Slice(content, 0, insertionPoint)
        \o (IF mode = InsertAfterLine THEN <<"\n">> ELSE <<>>)
        \o codeSnippet
        \o SliceFrom(content, insertionPoint)

\* lines 616-656: newContent, or the error returned before any write
NewContent(content, codeSnippet, info, anchorTmplStr, mode) ==
    IF mode = AppendToEnd
    THEN [err |-> FALSE, data |-> content \o <<"\n">> \o codeSnippet]
    ELSE IF \/ anchorTmplStr = <<>>
            \/ TemplateParseFails(anchorTmplStr)
            \/ TemplateExecFails(anchorTmplStr)
         THEN [err |-> TRUE, data |-> <<>>]
         ELSE LET renderedAnchor == Render(anchorTmplStr, info)
                  insertionPoint == InsertionPoint(content, renderedAnchor, mode)
              IN  IF insertionPoint = -1
                  THEN [err |-> TRUE, data |-> <<>>]
                  ELSE [err |-> FALSE,
                        data |-> Splice(content, insertionPoint, codeSnippet, mode)]

\* appendToFile: the error flag and the file it leaves behind
AppendToFile(f, codeSnippet, info, anchorTmplStr, mode) ==
    LET rd == ReadForAppend(f, mode)
        nc == NewContent(rd.content, codeSnippet, info, anchorTmplStr, mode)
        wr == WriteFile(f, nc.data)
    IN  IF rd.err \/ nc.err THEN [err |-> TRUE, file |-> f]
        ELSE [err |-> wr.err, file |-> wr.file]

\* ------------------------------------------------------------------------
\* Specification SpecAppend: calls of appendToFile on one target file
\* ------------------------------------------------------------------------

\* the tokens a target file starts with: an anchor byte, a brace, a newline
Bytes == {"a", "{", "\n"}

\* the fragments handed to appendToFile
Snippets == {<<"s">>, <<"a", "{">>}

\* the anchor templates handed to appendToFile
AnchorTemplates ==
    {<<>>, <<"a">>, <<"{">>, <<"a", "a">>, <<"a", "{">>, <<"\n", "a">>,
     <<FieldEntityName>>, <<"a", FieldEntityName>>,
     <<OpenAction>>, <<"a", FieldMissing>>}

\* the descriptors handed to appendToFile
Infos == {[EntityName |-> <<>>], [EntityName |-> <<"a">>]}

TargetFileStates ==
    {Absent("rw"), Absent("ro")}
        \cup {Present(p, c) : p \in {"rw", "ro", "wo"}, c \in SeqsUpTo(Bytes, MaxLen)}

NoOp == [name |-> "none"]

IdleOrchestrator ==
    /\ pc = "idle"
    /\ run = <<>>
    /\ dirs = <<>>

InitAppend ==
    /\ files \in [{"target"} -> TargetFileStates]
    /\ pre = files
    /\ op = NoOp
    /\ IdleOrchestrator

\* one call appendToFile("target", codeSnippet, info, anchorTmplStr, mode)
AppendToFileCall ==
    \E codeSnippet \in Snippets, info \in Infos,
       anchorTmplStr \in AnchorTemplates, mode \in Modes :
        LET r == AppendToFile(files["target"], codeSnippet, info, anchorTmplStr, mode)
        IN  /\ Len(files["target"].content) <= MaxContent
            /\ files' = [files EXCEPT !["target"] = r.file]
            /\ pre' = files
            /\ op' = [name |-> "appendToFile", codeSnippet |-> codeSnippet,
                      info |-> info, anchorTmplStr |-> anchorTmplStr,
                      mode |-> mode, err |-> r.err]
            /\ UNCHANGED <<pc, run, dirs>>

NextAppend == AppendToFileCall

SpecAppend == InitAppend /\ [][NextAppend]_vars

\* ------------------------------------------------------------------------
\* Properties of appendToFile, checked under SpecAppend
\* ------------------------------------------------------------------------

\* the last operation was a call of appendToFile in this mode
Called(mode) == op.name = "appendToFile" /\ op.mode = mode

\* the bytes of the target file before and after the last call
Before == pre["target"].content
After  == files["target"].content

\* the anchor of the last call, rendered against its descriptor
Rendered == Render(op.anchorTmplStr, op.info)

\* the rendered anchor can be computed: the template parses and executes
Renders ==
    /\ ~TemplateParseFails(op.anchorTmplStr)
    /\ ~TemplateExecFails(op.anchorTmplStr)

\* p is the offset of the first occurrence of a in c
FirstOccurrence(c, a, p) ==
    /\ OccursAt(c, a, p)
    /\ \A j \in 0..(p - 1) : ~OccursAt(c, a, j)

\* b is the offset of the first "{" of c at or after offset p
FirstBraceFrom(c, p, b) ==
    /\ b >= p
    /\ b < Len(c)
    /\ c[b + 1] = "{"
    /\ \A j \in p..(b - 1) : c[j + 1] # "{"

\* what the last call had to add: the fragment, after one newline in the
\* AppendToEnd and InsertAfterLine modes
Inserted ==
    (IF op.mode \in {AppendToEnd, InsertAfterLine} THEN <<"\n">> ELSE <<>>)
        \o op.codeSnippet

\* C5 (as claimed): after every successful appendToFile call, in any mode and
\* for any prior state of the target file, the new content is the previous
\* content with the inserted text spliced in at one offset: every previous
\* byte is kept in order and only the fragment (after one newline in the
\* AppendToEnd and InsertAfterLine modes) is added.
C5_SpliceKeepsEveryByte ==
    (op.name = "appendToFile" /\ ~op.err) =>
        \E k \in 0..Len(Before) :
            After = Slice(Before, 0, k) \o Inserted \o SliceFrom(Before, k)

\* C6: in InsertAfterBrace mode the fragment is inserted immediately after
\* the first "{" found scanning forward from the start of the first
\* occurrence of the rendered anchor; so when the anchor holds no brace and
\* is followed, possibly after whitespace, by "{", the fragment is the first
\* content inside that brace, ahead of everything that was there.
C6_InsertAfterBrace ==
    (Called(InsertAfterBrace) /\ ~op.err) =>
        \E p \in 0..Len(Before), b \in 0..Len(Before) :
            /\ FirstOccurrence(Before, Rendered, p)
            /\ FirstBraceFrom(Before, p, b)
            /\ After = Slice(Before, 0, b + 1) \o op.codeSnippet
                          \o SliceFrom(Before, b + 1)
            /\ (\A i \in 1..Len(Rendered) : Rendered[i] # "{") =>
                  /\ b >= p + Len(Rendered)
                  /\ ((\A j \in (p + Len(Rendered))..(b - 1) : Before[j + 1] = "\n") =>
                        /\ Slice(After, 0, b + 1) = Slice(Before, 0, b + 1)
                        /\ Slice(After, b + 1, b + 1 + Len(op.codeSnippet))
                              = op.codeSnippet)

\* C6 witness: a successful InsertAfterBrace whose anchor is followed by a
\* brace that already had content: the fragment now stands before it.
C6_Witness ==
    /\ Called(InsertAfterBrace)
    /\ ~op.err
    /\ Rendered = <<"a">>
    /\ Before = <<"a", "{", "s">>
    /\ After = <<"a", "{">> \o op.codeSnippet \o <<"s">>

\* C7: in InsertAfterLine mode the anchor template is rendered against the
\* descriptor and the result is content[0..e) + newline + fragment +
\* content[e..], e the end offset of the first occurrence of the rendered
\* anchor; later occurrences are not used.
C7_InsertAfterLine ==
    (Called(InsertAfterLine) /\ ~op.err) =>
        /\ Renders
        /\ \E p \in 0..Len(Before) :
            LET e == p + Len(Rendered) IN
            /\ FirstOccurrence(Before, Rendered, p)
            /\ After = Slice(Before, 0, e) \o <<"\n">> \o op.codeSnippet
                          \o SliceFrom(Before, e)

\* C7 witness: a successful InsertAfterLine on a file that holds the
\* rendered anchor (from a template with a field) twice.
C7_Witness ==
    /\ Called(InsertAfterLine)
    /\ ~op.err
    /\ op.anchorTmplStr = <<FieldEntityName>>
    /\ Rendered = <<"a">>
    /\ Before = <<"a", "a">>
    /\ After = <<"a", "\n">> \o op.codeSnippet \o <<"a">>

\* C8 (as claimed): in AppendToEnd mode no anchor is required and the
\* resulting content is the previous content followed by one newline and
\* the fragment; a target that does not exist counts as empty and is created.
C8_AppendToEnd ==
    (Called(AppendToEnd) /\ ~op.err) =>
        /\ files["target"].exists
        /\ After = Before \o <<"\n">> \o op.codeSnippet

UpperLetters == {"U", "O", "I", "D", "C", "B"}
ToLowerLetter(c) ==
    IF c \in UpperLetters
    THEN [U |-> "u", O |-> "o", I |-> "i", D |-> "d", C |-> "c", B |-> "b"][c]
    ELSE c

\* a mutant of EqualFold: the letter case counts
EqualExact(s, t) == s = t

\* strings.EqualFold
EqualFold(s, t) ==
    /\ Len(s) = Len(t)
    /\ \A i \in 1..Len(s) : ToLowerLetter(s[i]) = ToLowerLetter(t[i])

\* A comment group is a sequence of comment lines, a comment line a sequence
\* of tokens; NoDoc is the nil *ast.CommentGroup.
NoDoc == <<>>

\* hasSwaggerAnnotations (gen_logic.go:433-444)
hasSwaggerAnnotations(doc) ==
    \E i \in 1..Len(doc) : \E j \in 1..Len(doc[i]) : doc[i][j] = "@"

\* A receiver is [form, type]: form "none" (a plain function), "value" (T),
\* "ptr" ( *T ) or "generic" ( *T[K], a receiver that is no identifier).
NoRecv == [form |-> "none", type |-> <<>>]

\* a mutant of getReceiverTypeName: a pointer receiver is not unwrapped
getReceiverTypeNameNoStar(recv) ==
    IF recv.form = "value" THEN recv.type ELSE <<>>

\* getReceiverTypeName (gen_logic.go:522-535)
getReceiverTypeName(recv) ==
    IF recv.form \in {"value", "ptr"} THEN recv.type ELSE <<>>

\* A top-level declaration: kind "func" (*ast.FuncDecl) or "gen" (*ast.GenDecl).
FuncDecl(name, recv, sig, doc, body) ==
    [kind |-> "func", name |-> name, recv |-> recv, sig |-> sig,
     doc |-> doc, body |-> body]

GenDecl(name) ==
    [kind |-> "gen", name |-> name, recv |-> NoRecv, sig |-> "",
     doc |-> NoDoc, body |-> ""]

\* A Go file record is [exists, perm, parses, pkgOk, decls, free, gofmt]:
\*   parses  the content is syntactically valid Go
\*   pkgOk   the package clause names a valid identifier; for a file that
\*           does not exist: the base name of its directory is one
\*   decls   the top-level declarations, each with its doc comment
\*   free    the file holds comments that are no declaration's doc
\*   gofmt   the content is in canonical gofmt form
GoAbsent(perm, pkgOk) ==
    [exists |-> FALSE, perm |-> perm, parses |-> FALSE, pkgOk |-> pkgOk,
     decls |-> <<>>, free |-> FALSE, gofmt |-> FALSE]

GoFile(perm, decls, free, gofmt) ==
    [exists |-> TRUE, perm |-> perm, parses |-> TRUE, pkgOk |-> TRUE,
     decls |-> decls, free |-> free, gofmt |-> gofmt]

GoGarbage(perm) ==
    [exists |-> TRUE, perm |-> perm, parses |-> FALSE, pkgOk |-> TRUE,
     decls |-> <<>>, free |-> FALSE, gofmt |-> FALSE]

\* A fragment is [blank, syntaxOk, decls]: blank when strings.TrimSpace
\* leaves nothing, syntaxOk when "package temp\n" + fragment parses.
Fragment(decls) == [blank |-> FALSE, syntaxOk |-> TRUE, decls |-> decls]
BlankFragment   == [blank |-> TRUE, syntaxOk |-> TRUE, decls |-> <<>>]
BrokenFragment  == [blank |-> FALSE, syntaxOk |-> FALSE, decls |-> <<>>]

\* lines 452-461: the fragment's first declaration, or the error
ParseSnippet(codeSnippet) ==
    IF ~codeSnippet.syntaxOk \/ Len(codeSnippet.decls) = 0
    THEN [err |-> TRUE, newMethod |-> GenDecl("")]
    ELSE IF codeSnippet.decls[1].kind # "func"
         THEN [err |-> TRUE, newMethod |-> GenDecl("")]
         ELSE [err |-> FALSE, newMethod |-> codeSnippet.decls[1]]

\* Each declaration of a syntax tree carries, beside its Doc field, the
\* comment group that File.Comments holds in front of it ("listed"): go/printer
\* prints a file's comments from File.Comments by position and reads the Doc
\* fields only when File.Comments is nil (go/ast, type File; go/printer,
\* printNode).
WithListed(d, listed) ==
    [kind |-> d.kind, name |-> d.name, recv |-> d.recv, sig |-> d.sig,
     doc |-> d.doc, body |-> d.body, listed |-> listed]

\* lines 463-480: the target's syntax tree [err, pkgOk, decls, comments];
\* os.Stat decides existence, a failed os.ReadFile is ignored and leaves no
\* source to parse
ParseTarget(f) ==
    IF ~f.exists
    THEN [err |-> FALSE, pkgOk |-> f.pkgOk, decls |-> <<>>, comments |-> FALSE]
    ELSE IF ReadError(f) # "nil" \/ ~f.parses
         THEN [err |-> TRUE, pkgOk |-> FALSE, decls |-> <<>>, comments |-> FALSE]
         ELSE [err |-> FALSE, pkgOk |-> TRUE,
               decls |-> [i \in 1..Len(f.decls) |->
                            WithListed(f.decls[i], f.decls[i].doc)],
               comments |-> f.free \/ \E i \in 1..Len(f.decls) :
                                        f.decls[i].doc # NoDoc]

\* line 484-485: the declaration is a function of that name on that receiver
IsTargetMethod(d, methodName, targetStructName) ==
    /\ d.kind = "func"
    /\ d.name = methodName
    /\ EqualFold(getReceiverTypeName(d.recv), targetStructName)

\* lines 482-491: astutil.Apply visits every declaration (returning false only
\* skips a node's children), so oldMethod ends as the last match; 0 for nil
FindOldMethod(decls, methodName, targetStructName) ==
    LET hits == {i \in 1..Len(decls) :
                    IsTargetMethod(decls[i], methodName, targetStructName)}
    IN  IF hits = {} THEN 0
        ELSE CHOOSE i \in hits : \A j \in hits : j <= i

\* lines 495-499: the Doc the merged method is given
FinalDoc(oldDoc, newDoc) ==
    IF hasSwaggerAnnotations(oldDoc) /\ ~hasSwaggerAnnotations(newDoc)
    THEN oldDoc
    ELSE newDoc

\* a mutant of MergeDecls: the whole declaration is replaced by the fragment's
MergeDeclsWhole(decls, newMethod, targetStructName) ==
    LET old == FindOldMethod(decls, newMethod.name, targetStructName) IN
    IF old # 0
    THEN [decls EXCEPT ![old] = WithListed(newMethod, decls[old].listed)]
    ELSE Append(decls, WithListed(newMethod, NoDoc))

\* lines 493-505: the declarations of the tree after the merge
MergeDecls(decls, newMethod, targetStructName) ==
    LET old == FindOldMethod(decls, newMethod.name, targetStructName) IN
    IF old # 0
    THEN [decls EXCEPT ![old].doc = FinalDoc(decls[old].doc, newMethod.doc),
                       ![old].body = newMethod.body]
    ELSE Append(decls, WithListed(newMethod, NoDoc))

\* lines 507-519: format.Node, then format.Source.  The printed declarations
\* carry the listed comments when the tree has a comment list and the Doc
\* fields otherwise; format.Source fails on an invalid package clause and the
\* printer's output is then written as it is.
PrintFile(f, node, decls) ==
    [exists |-> TRUE, perm |-> f.perm, parses |-> node.pkgOk, pkgOk |-> node.pkgOk,
     decls |-> [i \in 1..Len(decls) |->
                  [kind |-> decls[i].kind, name |-> decls[i].name,
                   recv |-> decls[i].recv, sig |-> decls[i].sig,
                   doc  |-> IF node.comments THEN decls[i].listed ELSE decls[i].doc,
                   body |-> decls[i].body]],
     free |-> f.free, gofmt |-> node.pkgOk]

\* a mutant of smartReplaceOrAddMethods: a failed write leaves the merged
\* content behind
smartReplaceOrAddMethodsTornWrite(f, codeSnippet, targetStructName) ==
    LET sn   == ParseSnippet(codeSnippet)
        node == ParseTarget(f)
        out  == PrintFile(f, node, MergeDecls(node.decls, sn.newMethod, targetStructName))
    IN  IF codeSnippet.blank THEN [err |-> FALSE, file |-> f]
        ELSE IF sn.err \/ node.err THEN [err |-> TRUE, file |-> f]
        ELSE IF f.perm = "ro" THEN [err |-> TRUE, file |-> out]
        ELSE [err |-> FALSE, file |-> out]

\* smartReplaceOrAddMethods (gen_logic.go:447-520): the error flag and the
\* file it leaves behind
smartReplaceOrAddMethods(f, codeSnippet, targetStructName) ==
    LET sn   == ParseSnippet(codeSnippet)
        node == ParseTarget(f)
        out  == PrintFile(f, node, MergeDecls(node.decls, sn.newMethod, targetStructName))
    IN  IF codeSnippet.blank THEN [err |-> FALSE, file |-> f]
        ELSE IF sn.err \/ node.err THEN [err |-> TRUE, file |-> f]
        ELSE IF f.perm = "ro" THEN [err |-> TRUE, file |-> f]
        ELSE [err |-> FALSE, file |-> out]

\* ------------------------------------------------------------------------
\* Specification SpecMerge: calls of smartReplaceOrAddMethods on one file
\* ------------------------------------------------------------------------

\* most declarations of an initial target file, and most declarations of a
\* file on which a further call is explored
MaxDecls == 2

\* receiver type names: two that differ in case only, and another one
TypeUh    == <<"U", "h">>
TypeLowUh == <<"u", "h">>
TypeOther == <<"O">>

\* comment groups: without and with an "@" annotation line
OldPlainDoc == << <<"//", "old">> >>
OldSwagDoc  == << <<"//", "old">>, <<"//", "@", "Router">> >>
NewPlainDoc == << <<"//", "new">> >>
NewSwagDoc  == << <<"//", "new">>, <<"//", "@", "Summary">> >>

\* the declarations a target file may start with
TargetDecls ==
    {GenDecl("T")}
        \cup {FuncDecl("M", [form |-> "ptr", type |-> TypeUh], "sigOld", d, "bodyOld") :
                d \in {NoDoc, OldPlainDoc, OldSwagDoc}}
        \cup {FuncDecl("m", [form |-> "ptr", type |-> TypeUh], "sigOld", NoDoc, "bodyOld")}
        \cup {FuncDecl("M", r, "sigOld", NoDoc, "bodyOld") :
                r \in {[form |-> "value", type |-> TypeLowUh],
                       [form |-> "ptr", type |-> TypeOther],
                       [form |-> "generic", type |-> TypeUh],
                       NoRecv}}

\* the function declarations a fragment may hold
FragmentFuncs ==
    {FuncDecl("M", r, s, d, "bodyNew") :
        r \in {[form |-> "ptr", type |-> TypeUh],
               [form |-> "value", type |-> TypeLowUh],
               [form |-> "ptr", type |-> TypeOther],
               NoRecv},
        s \in {"sigNew"},
        d \in {NoDoc, NewPlainDoc, NewSwagDoc}}

\* the fragments handed to smartReplaceOrAddMethods
Fragments ==
    {BlankFragment, BrokenFragment, Fragment(<<>>), Fragment(<<GenDecl("T")>>)}
        \cup {Fragment(<<d>>) : d \in FragmentFuncs}
        \cup {Fragment(<<d, GenDecl("T")>>) :
                d \in {FuncDecl("M", [form |-> "ptr", type |-> TypeUh],
                                "sigNew", NoDoc, "bodyNew")}}

\* the receiver type names handed to smartReplaceOrAddMethods
TargetStructNames == {TypeUh}

MergeFileStates ==
    {GoAbsent(p, ok) : p \in {"rw", "ro"}, ok \in BOOLEAN}
        \cup {GoGarbage("rw")}
        \cup {GoFile(p, d, fr, FALSE) :
                p \in {"rw"}, d \in SeqsUpTo(TargetDecls, MaxDecls), fr \in BOOLEAN}
        \cup {GoFile(p, <<d>>, FALSE, TRUE) : p \in {"ro", "wo"}, d \in TargetDecls}

InitMerge ==
    /\ files \in [{"target"} -> MergeFileStates]
    /\ pre = files
    /\ op = NoOp
    /\ IdleOrchestrator

\* one call smartReplaceOrAddMethods("target", codeSnippet, targetStructName);
\* op.again tells that the call before it had the same arguments
MergeCall ==
    \E codeSnippet \in Fragments, targetStructName \in TargetStructNames :
        LET r == smartReplaceOrAddMethods(files["target"], codeSnippet, targetStructName)
        IN  /\ Len(files["target"].decls) <= MaxDecls
            /\ files' = [files EXCEPT !["target"] = r.file]
            /\ pre' = files
            /\ op' = [name |-> "smartReplaceOrAddMethods",
                      codeSnippet |-> codeSnippet,
                      targetStructName |-> targetStructName,
                      err |-> r.err,
                      again |-> /\ op.name = "smartReplaceOrAddMethods"
                                /\ op.codeSnippet = codeSnippet
                                /\ op.targetStructName = targetStructName]
            /\ UNCHANGED <<pc, run, dirs>>

NextMerge == MergeCall

SpecMerge == InitMerge /\ [][NextMerge]_vars

\* ------------------------------------------------------------------------
\* Properties of smartReplaceOrAddMethods, checked under SpecMerge
\* ------------------------------------------------------------------------

\* the last operation was a merge that wrote the target file
Merged ==
    /\ op.name = "smartReplaceOrAddMethods"
    /\ ~op.err
    /\ ~op.codeSnippet.blank

\* the function the fragment of the last call declares
FragmentFunc == op.codeSnippet.decls[1]

\* the declarations of the target file before and after the last call
DeclsBefore == pre["target"].decls
DeclsAfter  == files["target"].decls

\* d is declared on receiver type T: its receiver is T or *T, letter case
\* of T aside
OnReceiver(d, T) ==
    /\ d.recv.form \in {"value", "ptr"}
    /\ Len(d.recv.type) = Len(T)
    /\ \A i \in 1..Len(T) : ToLowerLetter(d.recv.type[i]) = ToLowerLetter(T[i])

\* d declares the fragment's function on the target receiver type
DeclaresTarget(d) ==
    /\ d.kind = "func"
    /\ d.name = FragmentFunc.name
    /\ OnReceiver(d, op.targetStructName)

\* two declarations with the same name, receiver, parameters and results
SameHeader(d, e) ==
    /\ d.kind = e.kind
    /\ d.name = e.name
    /\ d.recv = e.recv
    /\ d.sig = e.sig

\* C2: the merge is merge-or-append.  If the target file declares M on T, the
\* number of declarations is unchanged, every other declaration is unchanged,
\* and that declaration keeps name, receiver, parameters and results while
\* its body becomes the fragment's; if it does not, every existing
\* declaration is unchanged and the fragment's function is appended once, as
\* the last declaration.
C2_MergeOrAppend ==
    Merged =>
        IF \E i \in 1..Len(DeclsBefore) : DeclaresTarget(DeclsBefore[i])
        THEN /\ Len(DeclsAfter) = Len(DeclsBefore)
             /\ \E i \in 1..Len(DeclsBefore) :
                    /\ DeclaresTarget(DeclsBefore[i])
                    /\ SameHeader(DeclsAfter[i], DeclsBefore[i])
                    /\ DeclsAfter[i].body = FragmentFunc.body
                    /\ \A j \in 1..Len(DeclsBefore) :
                            j # i => DeclsAfter[j] = DeclsBefore[j]
        ELSE /\ Len(DeclsAfter) = Len(DeclsBefore) + 1
             /\ \A j \in 1..Len(DeclsBefore) : DeclsAfter[j] = DeclsBefore[j]
             /\ SameHeader(DeclsAfter[Len(DeclsAfter)], FragmentFunc)
             /\ DeclsAfter[Len(DeclsAfter)].body = FragmentFunc.body

\* C2 witness: a merge into a file of two declarations that replaced the body
\* of M on T, whose parameters differ from the fragment's, beside another
\* declaration.
C2_Witness ==
    /\ Merged
    /\ Len(DeclsBefore) = 2
    /\ DeclsBefore[1].kind = "gen"
    /\ DeclaresTarget(DeclsBefore[2])
    /\ DeclsBefore[2].sig # FragmentFunc.sig
    /\ DeclsBefore[2].body # FragmentFunc.body
    /\ DeclsAfter[2].body = FragmentFunc.body

\* C3 (as claimed): for every target file, fragment and target receiver type
\* name, applying the merge twice with the same arguments yields the same
\* declarations as applying it once.
C3_IdempotentForEveryFragment ==
    (op.name = "smartReplaceOrAddMethods" /\ op.again) =>
        DeclsAfter = DeclsBefore

\* the fragment of the last call declares its function on the receiver type
\* the call names
FragmentOnTarget ==
    /\ Len(op.codeSnippet.decls) > 0
    /\ FragmentFunc.kind = "func"
    /\ OnReceiver(FragmentFunc, op.targetStructName)

\* C3 (amended): for every target file and every fragment whose function is
\* declared on the target receiver type (letter case aside), applying the
\* merge twice with the same arguments yields the same declarations as
\* applying it once.
C3_IdempotentOnTargetReceiver ==
    (op.name = "smartReplaceOrAddMethods" /\ op.again /\ FragmentOnTarget) =>
        DeclsAfter = DeclsBefore

\* C3 witness: a second, successful run of a merge whose fragment is declared
\* on the target receiver: the method of the first run is replaced, not
\* appended again.
C3_Witness ==
    /\ Merged
    /\ op.again
    /\ FragmentOnTarget
    /\ Len(DeclsBefore) = 2
    /\ DeclsBefore[2].body = FragmentFunc.body
    /\ DeclsAfter = DeclsBefore

\* C4 (as claimed): when the merge replaces an existing method, the resulting
\* documentation comment is the original block exactly when the original
\* holds a line with "@" and the fragment's block holds none; in every other
\* case the result carries the fragment's own block (which may be absent).
C4_DocOfReplacedMethod ==
    (Merged /\ \E i \in 1..Len(DeclsBefore) : DeclaresTarget(DeclsBefore[i])) =>
        \E i \in 1..Len(DeclsBefore) :
            /\ DeclaresTarget(DeclsBefore[i])
            /\ DeclsAfter[i].body = FragmentFunc.body
            /\ DeclsAfter[i].doc =
                 IF /\ hasSwaggerAnnotations(DeclsBefore[i].doc)
                    /\ ~hasSwaggerAnnotations(FragmentFunc.doc)
                 THEN DeclsBefore[i].doc
                 ELSE FragmentFunc.doc

\* the last operation was a call of smartReplaceOrAddMethods
MergeCalled == op.name = "smartReplaceOrAddMethods"

\* the fragment is exactly one top-level declaration, a function
OneFunction(codeSnippet) ==
    /\ ~codeSnippet.blank
    /\ codeSnippet.syntaxOk
    /\ Len(codeSnippet.decls) = 1
    /\ codeSnippet.decls[1].kind = "func"

\* C14 (as claimed): the merge returns an error whenever the fragment is not
\* exactly one top-level function declaration: it does not parse, it holds no
\* declaration (the empty fragment included), it holds more than one, or its
\* declaration is no function.
C14_NotOneFunctionErrors ==
    (MergeCalled /\ ~OneFunction(op.codeSnippet)) => op.err

\* C15: whenever the merge returns an error, the target file is neither
\* created nor modified.
C15_ErrorLeavesTarget ==
    (MergeCalled /\ op.err) => files["target"] = pre["target"]

\* C15 witnesses: a failed merge of a well-formed fragment into an existing
\* file that cannot be written, and one into a missing file that cannot be
\* created
C15_Witness ==
    /\ MergeCalled
    /\ op.err
    /\ OneFunction(op.codeSnippet)
    /\ pre["target"].exists
    /\ pre["target"].parses
    /\ pre["target"].perm = "ro"
    /\ files["target"].decls = pre["target"].decls

\* the fragment's first declaration is a function
FragmentUsable ==
    /\ ~op.codeSnippet.blank
    /\ op.codeSnippet.syntaxOk
    /\ Len(op.codeSnippet.decls) > 0
    /\ op.codeSnippet.decls[1].kind = "func"

\* the target file, if it exists, can be read and parsed, and can be written
TargetUsable ==
    /\ pre["target"].exists => ReadError(pre["target"]) = "nil" /\ pre["target"].parses
    /\ pre["target"].perm # "ro"

\* the last call took the merge path: nothing was appended
Selected == Len(DeclsAfter) = Len(DeclsBefore)

\* C16: the merge selects an existing function exactly when its name equals
\* the fragment's name and its receiver's base type equals the target name
\* ignoring case, for pointer and value receivers alike; in every other case
\* the fragment is appended, and the mismatch is no error.
C16_SelectsByNameAndReceiver ==
    (MergeCalled /\ FragmentUsable /\ TargetUsable) =>
        /\ ~op.err
        /\ Selected <=> \E i \in 1..Len(DeclsBefore) : DeclaresTarget(DeclsBefore[i])
        /\ \A i \in 1..Len(DeclsBefore) :
               DeclsAfter[i] # DeclsBefore[i] => DeclaresTarget(DeclsBefore[i])
        /\ ~Selected =>
               /\ Len(DeclsAfter) = Len(DeclsBefore) + 1
               /\ SameHeader(DeclsAfter[Len(DeclsAfter)], FragmentFunc)

\* C16 witness: beside a method m on *T, the method M on the value receiver t
\* (T in another letter case) is selected
C16_Witness ==
    /\ Merged
    /\ TargetUsable
    /\ Len(DeclsBefore) = 2
    /\ DeclsBefore[1].name # FragmentFunc.name
    /\ OnReceiver(DeclsBefore[1], op.targetStructName)
    /\ DeclsBefore[2].recv.form = "value"
    /\ DeclsBefore[2].recv.type # op.targetStructName
    /\ Selected
    /\ DeclsAfter[2].body = FragmentFunc.body
    /\ DeclsBefore[2].body # FragmentFunc.body
    /\ DeclsAfter[1] = DeclsBefore[1]

\* C16 witness of the append path: a method of the same name on another
\* receiver type is left alone and the fragment is appended
C16_WitnessAppend ==
    /\ Merged
    /\ Len(DeclsBefore) = 1
    /\ DeclsBefore[1].name = FragmentFunc.name
    /\ DeclsBefore[1].recv.form = "ptr"
    /\ ~OnReceiver(DeclsBefore[1], op.targetStructName)
    /\ Len(DeclsAfter) = 2
    /\ DeclsAfter[1] = DeclsBefore[1]


\* ------------------------------------------------------------------------
\* Names and paths (common package)
\* ------------------------------------------------------------------------

\* A string is its sequence of bytes.  An ASCII letter is one byte, written
\* as the letter; the letters outside ASCII are the two-byte upper-case
\* letter <<Lead, UpperTail>> (U+00C9, bytes C3 89) and its lower case
\* <<Lead, LowerTail>> (U+00E9, bytes C3 A9).
Lead == "C3"
UpperTail == "89"
LowerTail == "A9"

\* unicode.IsLower(rune(b)) for one byte b of a string: the bytes C3, 89 and
\* A9 taken as code points are U+00C3 (upper case), a control character and
\* the copyright sign
LowerLetters ==
    {"u", "o", "s", "y", "h", "e", "r", "i", "d", "c", "a", "t", "g", "b"}
IsLower(c) == c \in LowerLetters

\* the width of the rune `range s` decodes at byte i (1-based)
RuneLen(s, i) == IF s[i] = Lead /\ i < Len(s) THEN 2 ELSE 1

\* byte i starts a rune: `range s` stops there
RuneStart(s, i) == i = 1 \/ s[i-1] # Lead

\* unicode.IsUpper of the rune decoded at byte i
IsUpper(s, i) ==
    \/ s[i] \in UpperLetters
    \/ (RuneLen(s, i) = 2 /\ s[i+1] = UpperTail)

\* unicode.ToLower of the rune decoded at byte i, as bytes
ToLower(s, i) ==
    IF RuneLen(s, i) = 2
    THEN <<Lead, IF s[i+1] = UpperTail THEN LowerTail ELSE s[i+1]>>
    ELSE <<ToLowerLetter(s[i])>>

RECURSIVE Flatten(_)
\* the concatenation of a sequence of sequences
Flatten(ss) == IF ss = <<>> THEN <<>> ELSE Head(ss) \o Flatten(Tail(ss))

\* ToSnakeCase: `range s` yields the byte offset i and the rune r at it; an
\* underscore goes before an upper-case rune when i > 0 and the byte s[i-1]
\* or the byte s[i+1], taken as a rune, is a lower-case letter
ToSnakeCase(s) ==
    Flatten([i \in 1..Len(s) |->
        IF ~RuneStart(s, i) THEN <<>>
        ELSE IF IsUpper(s, i)
        THEN (IF i > 1 /\ (IsLower(s[i-1]) \/ (i + 1 <= Len(s) /\ IsLower(s[i+1])))
              THEN <<"_">> ELSE <<>>) \o ToLower(s, i)
        ELSE SubSeq(s, i, i + RuneLen(s, i) - 1)])

\* strings.HasSuffix for a one-letter suffix
HasSuffix(s, c) == Len(s) > 0 /\ s[Len(s)] = c

\* ToPluralSnakeCase
ToPluralSnakeCase(s) ==
    LET snake == ToSnakeCase(s)
    IN  IF HasSuffix(snake, "y")
        THEN SubSeq(snake, 1, Len(snake) - 1) \o <<"i", "e", "s">>
        ELSE IF HasSuffix(snake, "s") THEN snake \o <<"e", "s">>
        ELSE snake \o <<"s">>

\* ToLowerCamel: the first rune of []rune(s) in lower case
ToLowerCamel(s) ==
    IF s = <<>> THEN <<>>
    ELSE ToLower(s, 1) \o SubSeq(s, RuneLen(s, 1) + 1, Len(s))

\* The directories the code looks at: [application, usecase, dto].
\* application and usecase tell whether os.Stat finds internal/application and
\* internal/usecase; dto is the state of internal/interfaces/dto: "dir",
\* "none", or "blocked" when os.MkdirAll cannot make it.
Dirs(application, usecase, dto) ==
    [application |-> application, usecase |-> usecase, dto |-> dto]

\* GetProjectPaths: the first preset whose marker directory exists
GetProjectPaths(d) ==
    IF d.application
    THEN [err |-> FALSE,
          RepoInterfaceDir |-> "internal/domain/repository",
          RepoImplDir      |-> "internal/infrastructure/persistence",
          ServiceDir       |-> "internal/application/service",
          HandlerDir       |-> "internal/interfaces/handler",
          RouterFile       |-> "internal/infrastructure/router/router.go"]
    ELSE IF d.usecase
    THEN [err |-> FALSE,
          RepoInterfaceDir |-> "internal/domain/ports",
          RepoImplDir      |-> "internal/adapter/repository",
          ServiceDir       |-> "internal/usecase/service",
          HandlerDir       |-> "internal/adapter/handler",
          RouterFile       |-> "internal/adapter/router/router.go"]
    ELSE [err |-> TRUE,
          RepoInterfaceDir |-> "", RepoImplDir |-> "", ServiceDir |-> "",
          HandlerDir |-> "", RouterFile |-> ""]

\* os.MkdirAll on internal/interfaces/dto: the error flag and the new state
MkdirAll(dto) ==
    IF dto = "blocked" THEN [err |-> TRUE, dto |-> dto]
    ELSE [err |-> FALSE, dto |-> "dir"]

\* buildApiInfo, the fields the injection reads
buildApiInfo(entity, method) ==
    [EntityName      |-> entity,
     LowerEntityName |-> ToLowerCamel(entity),
     TableName       |-> ToPluralSnakeCase(entity),
     MethodName      |-> method]



\* ------------------------------------------------------------------------
\* injectGeneratedCode (client.go:539-590) and ensureRouteGroupExists
\* (client.go:592-605)
\* ------------------------------------------------------------------------

\* A path is a tuple: <<directory, snake-case entity name, suffix>> for the
\* files named after an entity, <<file>> for the router file.
EntityFile(dir, info, suffix) == <<dir, ToSnakeCase(info.EntityName), suffix>>

\* line 548: the mapper file, always under the DDD directory
MapperPath(info) == EntityFile("internal/interfaces/dto", info, "_mapper.go")

RouterPath(paths) == <<paths.RouterFile>>

\* lines 597 and 574: RoutesVar := apiV1.Group("/table")
GroupDefinition(info) ==
    info.LowerEntityName \o <<"Routes := apiV1.Group(/">> \o info.TableName \o <<")">>

\* line 602: the marker comment line and the group definition
CreationCode(info) ==
    <<"\n", "\t", "// ">> \o info.EntityName \o <<" routes", "\n", "\t">>
        \o GroupDefinition(info)

\* line 603
ApiV1Anchor == <<"apiV1 := r.App.Group(/api/v1)">>

\* a mutant of ensureRouteGroupExists: a missing group is not created
ensureRouteGroupUnchecked(f, info) ==
    IF ReadFile(f).err # "nil" THEN [err |-> TRUE, file |-> f]
    ELSE [err |-> FALSE, file |-> f]

\* ensureRouteGroupExists: the error flag and the router file it leaves
ensureRouteGroupExists(f, info) ==
    LET rd == ReadFile(f)
    IN  IF rd.err # "nil" THEN [err |-> TRUE, file |-> f]
        ELSE IF Contains(rd.data, GroupDefinition(info))
             THEN [err |-> FALSE, file |-> f]
             ELSE AppendToFile(f, CreationCode(info), info, ApiV1Anchor, InsertAfterLine)

\* lines 567-575: the six insertions, in the order they are made
InjectTasks(paths, info, snippets) ==
    << [filePath    |-> EntityFile(paths.RepoInterfaceDir, info, "_repository.go"),
        codeSnippet |-> <<"\n", "\t">> \o snippets.RepoInterfaceMethod,
        anchor      |-> <<"type ", FieldEntityName, "Repository interface">>,
        mode        |-> InsertAfterBrace],
       [filePath    |-> EntityFile(paths.RepoImplDir, info, "_repository_impl.go"),
        codeSnippet |-> <<"\n">> \o snippets.RepoImplMethod,
        anchor      |-> <<>>,
        mode        |-> AppendToEnd],
       [filePath    |-> EntityFile(paths.ServiceDir, info, "_service.go"),
        codeSnippet |-> <<"\n", "\t">> \o snippets.ServiceInterface,
        anchor      |-> <<"type ", FieldEntityName, "Service interface">>,
        mode        |-> InsertAfterBrace],
       [filePath    |-> EntityFile(paths.ServiceDir, info, "_service.go"),
        codeSnippet |-> <<"\n">> \o snippets.ServiceImplMethod,
        anchor      |-> <<>>,
        mode        |-> AppendToEnd],
       [filePath    |-> EntityFile(paths.HandlerDir, info, "_handler.go"),
        codeSnippet |-> <<"\n">> \o snippets.HandlerMethod,
        anchor      |-> <<>>,
        mode        |-> AppendToEnd],
       [filePath    |-> RouterPath(paths),
        codeSnippet |-> <<"\n", "\t">> \o snippets.RouterLine,
        anchor      |-> GroupDefinition(info),
        mode        |-> InsertAfterLine] >>

\* The steps of one run are numbered: 0 GetProjectPaths, 1 the mapper file,
\* 2 ensureRouteGroupExists, 3..8 the six insertions.
StepPaths  == 0
StepMapper == 1
StepGroup  == 2
LastStep   == 8

\* what a step reports in op; done tells that the run has returned
InjectOp(step, err, done) ==
    [name |-> "injectGeneratedCode", step |-> step, err |-> err, done |-> done]



\* ------------------------------------------------------------------------
\* Runs of injectGeneratedCode, one step at a time
\* ------------------------------------------------------------------------

\* the most runs of an orchestrator that are explored on one working tree
MaxRuns == 2

\* the entities the working tree may have been generated for
Entities == {<<"U">>, <<"U", "s", "O">>}

Methods == {"GetByName"}

\* the fragments the LLM returned; only the mapper content varies
InjectSnippets ==
    {[RepoInterfaceMethod |-> <<"FindByName(name) error">>,
      RepoImplMethod      |-> <<"func (r *repo) FindByName(name) error {}">>,
      ServiceInterface    |-> <<"GetByName(name) error">>,
      ServiceImplMethod   |-> <<"func (s *svc) GetByName(name) error {}">>,
      HandlerMethod       |-> <<"func (h *handler) GetByName(c) error {}">>,
      RouterLine          |-> <<"routes.Get(/by-name, handler.GetByName)">>,
      MapperFullContent   |-> m] : m \in {<<>>, <<"package dto // new mapper">>}}

\* a run starts: lines 539-543
InjectBegin ==
    /\ pc = "idle"
    /\ run.kind = "inject"
    /\ run.n < MaxRuns
    /\ \E method \in Methods, snippets \in InjectSnippets :
        LET info  == buildApiInfo(run.entity, method)
            paths == GetProjectPaths(dirs)
        IN  /\ run' = [kind |-> "inject", n |-> run.n + 1, entity |-> run.entity,
                       info |-> info, snippets |-> snippets, paths |-> paths,
                       start |-> files, k |-> 0,
                       again |-> /\ run.n > 0
                                 /\ op.done /\ ~op.err
                                 /\ run.info = info
                                 /\ run.snippets = snippets]
            /\ pc' = IF paths.err THEN "idle" ELSE "mapper"
            /\ op' = InjectOp(StepPaths, paths.err, paths.err)
    /\ pre' = files
    /\ UNCHANGED <<files, dirs>>

\* step 1, lines 546-556: the mapper file is overwritten when the LLM
\* returned one
InjectMapper ==
    /\ pc = "mapper"
    /\ LET content == run.snippets.MapperFullContent
           path    == MapperPath(run.info)
           mk      == MkdirAll(dirs.dto)
           wr      == WriteFile(files[path], content)
       IN  IF content = <<>>
           THEN /\ pc' = "group"
                /\ op' = InjectOp(StepMapper, FALSE, FALSE)
                /\ UNCHANGED <<files, dirs>>
           ELSE IF mk.err
           THEN /\ pc' = "idle"
                /\ op' = InjectOp(StepMapper, TRUE, TRUE)
                /\ UNCHANGED <<files, dirs>>
           ELSE /\ dirs' = [dirs EXCEPT !.dto = mk.dto]
                /\ files' = [files EXCEPT ![path] = wr.file]
                /\ pc' = IF wr.err THEN "idle" ELSE "group"
                /\ op' = InjectOp(StepMapper, wr.err, wr.err)
    /\ pre' = files
    /\ UNCHANGED run

\* lines 559-561: the route group is made sure of
InjectGroup ==
    /\ pc = "group"
    /\ LET path == RouterPath(run.paths)
           r    == ensureRouteGroupExists(files[path], run.info)
       IN  /\ files' = [files EXCEPT ![path] = r.file]
           /\ pc' = IF r.err THEN "idle" ELSE "tasks"
           /\ op' = InjectOp(StepGroup, r.err, r.err)
    /\ pre' = files
    /\ run' = [run EXCEPT !.k = 1]
    /\ UNCHANGED dirs

\* lines 577-588: the next insertion of the list
InjectTask ==
    /\ pc = "tasks"
    /\ LET tasks == InjectTasks(run.paths, run.info, run.snippets)
           task  == tasks[run.k]
           r     == AppendToFile(files[task.filePath], task.codeSnippet, run.info,
                                 task.anchor, task.mode)
           last  == run.k = Len(tasks)
       IN  /\ files' = [files EXCEPT ![task.filePath] = r.file]
           /\ pc' = IF r.err \/ last THEN "idle" ELSE "tasks"
           /\ op' = InjectOp(StepGroup + run.k, r.err, r.err \/ last)
           /\ run' = [run EXCEPT !.k = IF r.err \/ last THEN run.k ELSE run.k + 1]
    /\ pre' = files
    /\ UNCHANGED dirs



\* ------------------------------------------------------------------------
\* The working trees injectGeneratedCode is run on
\* ------------------------------------------------------------------------

\* the router file: with the apiV1 group and the entity's group, with the
\* apiV1 group only, without either, missing, or read-only with both
RouterOpen == <<"func (r *Router) Register() {", "\n", "\t">>
RouterClose == <<"\n", "}">>

RouterStates(info) ==
    {Present("rw", RouterOpen \o ApiV1Anchor \o CreationCode(info) \o RouterClose),
     Present("rw", RouterOpen \o ApiV1Anchor \o RouterClose),
     Present("rw", RouterOpen \o RouterClose),
     Absent("rw"),
     Present("ro", RouterOpen \o ApiV1Anchor \o CreationCode(info) \o RouterClose)}

\* a file declaring the interface Entity+suffix, or one that lacks it
InterfaceStates(info, suffix) ==
    {Present("rw", <<"type ">> \o info.EntityName \o <<suffix, " ", "{", "\n", "}">>),
     Present("rw", <<"package p">>)}

\* a file that is appended to: present, or missing where it cannot be created
AppendedStates == {Present("rw", <<"package p">>), Absent("ro")}

\* the mapper file and its directory
MapperStates ==
    {[dto |-> "none",    file |-> Absent("rw")],
     [dto |-> "blocked", file |-> Absent("rw")],
     [dto |-> "dir",     file |-> Present("rw", <<"package dto // old mapper">>)],
     [dto |-> "dir",     file |-> Present("ro", <<"package dto // old mapper">>)]}

\* the tree of a project of the given layout; a directory that is no project
\* holds none of the layered files
InjectTree(d, info, mapper, router, repoIface, repoImpl, service, handler) ==
    LET paths == GetProjectPaths(d)
        tasks == InjectTasks(paths, info, CHOOSE sn \in InjectSnippets : TRUE)
    IN  IF paths.err
        THEN MapperPath(info) :> mapper
        ELSE (MapperPath(info) :> mapper)
                @@ (RouterPath(paths) :> router)
                @@ (tasks[1].filePath :> repoIface)
                @@ (tasks[2].filePath :> repoImpl)
                @@ (tasks[3].filePath :> service)
                @@ (tasks[5].filePath :> handler)

InitInject ==
    \E entity \in Entities, application \in BOOLEAN, usecase \in BOOLEAN,
       mapper \in MapperStates :
        LET info == buildApiInfo(entity, CHOOSE m \in Methods : TRUE)
        IN  /\ dirs = Dirs(application, usecase, mapper.dto)
            /\ \E router \in RouterStates(info),
                  repoIface \in InterfaceStates(info, "Repository interface"),
                  repoImpl \in AppendedStates,
                  service \in InterfaceStates(info, "Service interface"),
                  handler \in AppendedStates :
                    files = InjectTree(dirs, info, mapper.file, router, repoIface,
                                       repoImpl, service, handler)
            /\ run = [kind |-> "inject", n |-> 0, entity |-> entity]
            /\ pre = files
            /\ op = NoOp
            /\ pc = "idle"

\* ------------------------------------------------------------------------
\* applyGeneratedCode (gen_logic.go:399-430)
\* ------------------------------------------------------------------------

\* A fragment of the LLM response for gen-logic is [empty, code]: empty when
\* the JSON field is the empty string, code the fragment otherwise.
NoCode == [empty |-> TRUE, code |-> BlankFragment]
Code(fragment) == [empty |-> FALSE, code |-> fragment]

\* buildLogicAdditionInfo (gen_logic.go:340-363), the fields the injection
\* reads
buildLogicAdditionInfo(entityName, methodName, d) ==
    LET paths == GetProjectPaths(d)
        e     == [EntityName |-> entityName]
    IN  [err |-> paths.err,
         EntityName            |-> entityName,
         MethodName            |-> methodName,
         HandlerFile           |-> EntityFile(paths.HandlerDir, e, "_handler.go"),
         ServiceFile           |-> EntityFile(paths.ServiceDir, e, "_service.go"),
         RepoImplFile          |-> EntityFile(paths.RepoImplDir, e, "_repository_impl.go"),
         RepoInterfacePath     |-> EntityFile(paths.RepoInterfaceDir, e, "_repository.go"),
         HandlerStructName     |-> entityName \o <<"Handler">>,
         ServiceImplStructName |-> ToLowerCamel(entityName) \o <<"ServiceImpl">>,
         RepoImplStructName    |-> ToLowerCamel(entityName) \o <<"RepositoryImpl">>]

\* lines 400-410: the three merges, in the order they are made
LogicTasks(info, snippets) ==
    << [filePath   |-> info.HandlerFile,
        newCode    |-> snippets.ModifiedHandlerMethod,
        structName |-> info.HandlerStructName],
       [filePath   |-> info.ServiceFile,
        newCode    |-> snippets.ModifiedServiceImplMethod,
        structName |-> info.ServiceImplStructName],
       [filePath   |-> info.RepoImplFile,
        newCode    |-> snippets.ModifiedRepoImplMethod,
        structName |-> info.RepoImplStructName] >>

\* what a step reports in op: steps 1..3 are the merges, step 4 the insertion
\* into the repository interface
StepInterface == 4

LogicOp(step, err, done) ==
    [name |-> "applyGeneratedCode", step |-> step, err |-> err, done |-> done]

\* the method gen-logic rewrites, declared on a struct
MethodOn(methodName, structName, body) ==
    FuncDecl(methodName, [form |-> "ptr", type |-> structName], "(ctx) error",
             NoDoc, body)

\* the responses of the LLM: each method is left out or rewritten
LogicSnippets(info) ==
    {[ModifiedHandlerMethod     |-> h,
      ModifiedServiceImplMethod |-> s,
      ModifiedRepoImplMethod    |-> r,
      NewRepoInterfaceMethod    |-> i] :
        h \in {NoCode, Code(Fragment(<<MethodOn(info.MethodName,
                                                info.HandlerStructName, "new")>>))},
        s \in {NoCode, Code(Fragment(<<MethodOn(info.MethodName,
                                                info.ServiceImplStructName, "new")>>))},
        r \in {NoCode, Code(Fragment(<<MethodOn(info.MethodName,
                                                info.RepoImplStructName, "new")>>))},
        i \in {<<>>, <<"FindByName(name) error">>}}

\* a run starts: applyGeneratedCode is entered with the context and a response
LogicBegin ==
    /\ pc = "idle"
    /\ run.kind = "logic"
    /\ run.n < MaxRuns
    /\ \E method \in Methods :
        LET info == buildLogicAdditionInfo(run.entity, method, dirs)
        IN  /\ ~info.err
            /\ \E snippets \in LogicSnippets(info) :
                run' = [kind |-> "logic", n |-> run.n + 1, entity |-> run.entity,
                        info |-> info, snippets |-> snippets, start |-> files,
                        k |-> 1]
    /\ pc' = "merge"
    /\ op' = LogicOp(0, FALSE, FALSE)
    /\ pre' = files
    /\ UNCHANGED <<files, dirs>>

\* lines 412-420: the next merge of the list, skipped for an empty fragment
LogicMerge ==
    /\ pc = "merge"
    /\ LET tasks == LogicTasks(run.info, run.snippets)
           task  == tasks[run.k]
           r     == IF task.newCode.empty
                    THEN [err |-> FALSE, file |-> files[task.filePath]]
                    ELSE smartReplaceOrAddMethods(files[task.filePath],
                                                  task.newCode.code, task.structName)
           last  == run.k = Len(tasks)
       IN  /\ files' = [files EXCEPT ![task.filePath] = r.file]
           /\ pc' = IF r.err THEN "idle" ELSE IF last THEN "interface" ELSE "merge"
           /\ op' = LogicOp(run.k, r.err, r.err)
           /\ run' = [run EXCEPT !.k = IF r.err THEN run.k ELSE run.k + 1]
    /\ pre' = files
    /\ UNCHANGED dirs

\* lines 422-429: the new method of the repository interface
LogicInterface ==
    /\ pc = "interface"
    /\ LET path    == run.info.RepoInterfacePath
           newCode == run.snippets.NewRepoInterfaceMethod
           anchor  == <<"type ">> \o run.info.EntityName \o <<"Repository interface">>
           r       == IF newCode = <<>>
                      THEN [err |-> FALSE, file |-> files[path]]
                      ELSE AppendToFile(files[path], <<"\n", "\t">> \o newCode,
                                        [EntityName |-> run.info.EntityName],
                                        anchor, InsertAfterBrace)
       IN  /\ files' = [files EXCEPT ![path] = r.file]
           /\ op' = LogicOp(StepInterface, r.err, TRUE)
    /\ pc' = "idle"
    /\ pre' = files
    /\ UNCHANGED <<run, dirs>>

\* ------------------------------------------------------------------------
\* Specification SpecOrchestrate: runs of the two orchestrators, each on a
\* working tree of its own
\* ------------------------------------------------------------------------

\* a Go file holding the method on its struct, and the ways a merge into it
\* fails: "garbage" does not parse, "ro" cannot be written
MethodFileStates(methodName, structName, failures) ==
    {GoFile("rw", <<MethodOn(methodName, structName, "old")>>, FALSE, TRUE)}
        \cup (IF "garbage" \in failures THEN {GoGarbage("rw")} ELSE {})
        \cup (IF "ro" \in failures
              THEN {GoFile("ro", <<MethodOn(methodName, structName, "old")>>,
                           FALSE, TRUE)}
              ELSE {})

InitLogic ==
    \E entity \in Entities, application \in BOOLEAN, usecase \in BOOLEAN :
        LET d    == Dirs(application, usecase, "none")
            info == buildLogicAdditionInfo(entity, CHOOSE m \in Methods : TRUE, d)
        IN  /\ ~info.err
            /\ dirs = d
            /\ \E handler \in MethodFileStates(info.MethodName, info.HandlerStructName,
                                               {"garbage", "ro"}),
                  service \in MethodFileStates(info.MethodName, info.ServiceImplStructName,
                                               {"garbage"}),
                  repoImpl \in MethodFileStates(info.MethodName, info.RepoImplStructName,
                                                {"ro"}),
                  repoIface \in InterfaceStates(info, "Repository interface") :
                    files = (info.HandlerFile :> handler)
                                @@ (info.ServiceFile :> service)
                                @@ (info.RepoImplFile :> repoImpl)
                                @@ (info.RepoInterfacePath :> repoIface)
            /\ run = [kind |-> "logic", n |-> 0, entity |-> entity]
            /\ pre = files
            /\ op = NoOp
            /\ pc = "idle"

InitOrchestrate == InitInject \/ InitLogic

NextOrchestrate ==
    \/ InjectBegin
    \/ InjectMapper
    \/ InjectGroup
    \/ InjectTask
    \/ LogicBegin
    \/ LogicMerge
    \/ LogicInterface

SpecOrchestrate == InitOrchestrate /\ [][NextOrchestrate]_vars

\* ------------------------------------------------------------------------
\* Claims about the orchestrators
\* ------------------------------------------------------------------------

\* the last step reported belongs to a run that has returned
Returned == op.name \in {"injectGeneratedCode", "applyGeneratedCode"} /\ op.done

\* the run has returned with the error of step op.step
Failed == Returned /\ op.err

\* the file a step of the current run works on
StepFile(step) ==
    IF run.kind = "inject"
    THEN IF step = StepMapper THEN MapperPath(run.info)
         ELSE IF step = StepGroup THEN RouterPath(run.paths)
         ELSE InjectTasks(run.paths, run.info, run.snippets)[step - StepGroup].filePath
    ELSE IF step = StepInterface THEN run.info.RepoInterfacePath
         ELSE LogicTasks(run.info, run.snippets)[step].filePath

\* the number of the last step of the current run
FinalStep == IF run.kind = "inject" THEN LastStep ELSE StepInterface

\* the file of a step that was made still holds what the step put there
StepKept(step) ==
    LET f == files[StepFile(step)] IN
    IF run.kind = "inject"
    THEN IF step = StepMapper
         THEN \/ run.snippets.MapperFullContent = <<>>
              \/ f.exists /\ f.content = run.snippets.MapperFullContent
         ELSE IF step = StepGroup
         THEN f.exists /\ Contains(f.content, GroupDefinition(run.info))
         ELSE f.exists /\ Contains(f.content,
                InjectTasks(run.paths, run.info, run.snippets)[step - StepGroup].codeSnippet)
    ELSE LET task == LogicTasks(run.info, run.snippets)[step]
         IN  \/ task.newCode.empty
             \/ /\ f.exists
                /\ \E i \in 1..Len(f.decls) :
                     /\ f.decls[i].name = task.newCode.code.decls[1].name
                     /\ f.decls[i].body = task.newCode.code.decls[1].body

\* C1 (as claimed): a second run of injectGeneratedCode with the inputs of
\* the first, successful run leaves every target file byte-identical to its
\* content after the first run.
C1_SecondRunChangesNothing ==
    (Returned /\ ~op.err /\ run.kind = "inject" /\ run.again)
        => files = run.start

\* C10: when step k of an orchestrated run fails the run returns at once with
\* the error; the failed step has changed no file, every step before k has
\* left its modification in place, and a file that only steps after k work
\* on is as it was when the run started.
C10_FailureStopsRun ==
    Failed =>
        /\ pc = "idle"
        /\ files = pre
        /\ IF op.step = StepPaths
           THEN files = run.start
           ELSE /\ \A i \in 1..(op.step - 1) : StepKept(i)
                /\ \A j \in (op.step + 1)..FinalStep :
                     (\A i \in 1..op.step : StepFile(i) # StepFile(j))
                        => files[StepFile(j)] = run.start[StepFile(j)]

\* C10 happens: the handler insertion of injectGeneratedCode fails after the
\* mapper was overwritten, the route group created and three files extended
C10_Witness ==
    /\ Failed
    /\ run.kind = "inject"
    /\ op.step = StepGroup + 5
    /\ run.snippets.MapperFullContent # <<>>
    /\ \A i \in 1..(op.step - 1) : files[StepFile(i)] # run.start[StepFile(i)]
    /\ ~files[StepFile(op.step)].exists

\* the file and the fragment of each step of injectGeneratedCode, in the
\* order the steps are claimed to be made
OrderedFile(step) ==
    CASE step = 1 -> MapperPath(run.info)
      [] step = 2 -> RouterPath(run.paths)
      [] step = 3 -> EntityFile(run.paths.RepoInterfaceDir, run.info, "_repository.go")
      [] step = 4 -> EntityFile(run.paths.RepoImplDir, run.info, "_repository_impl.go")
      [] step = 5 -> EntityFile(run.paths.ServiceDir, run.info, "_service.go")
      [] step = 6 -> EntityFile(run.paths.ServiceDir, run.info, "_service.go")
      [] step = 7 -> EntityFile(run.paths.HandlerDir, run.info, "_handler.go")
      [] step = 8 -> RouterPath(run.paths)

OrderedFragment(step) ==
    CASE step = 3 -> run.snippets.RepoInterfaceMethod
      [] step = 4 -> run.snippets.RepoImplMethod
      [] step = 5 -> run.snippets.ServiceInterface
      [] step = 6 -> run.snippets.ServiceImplMethod
      [] step = 7 -> run.snippets.HandlerMethod
      [] step = 8 -> run.snippets.RouterLine

\* a step of injectGeneratedCode after GetProjectPaths has just been made
InjectStepMade == op.name = "injectGeneratedCode" /\ op.step >= 1

\* what each step of injectGeneratedCode does: it changes its own file only,
\* the mapper step changes nothing for an empty mapper content, an insertion
\* that succeeds leaves its fragment in its file, and the router-line step
\* finds the group definition and puts the route line right after it: the
\* newline of the InsertAfterLine mode, then the fragment, which itself
\* starts with a newline and a tab
InjectStepEffect ==
    InjectStepMade =>
        LET path == OrderedFile(op.step)
            old  == pre[path].content
            new  == files[path].content
            g    == GroupDefinition(run.info)
        IN  /\ \A other \in DOMAIN files : files[other] # pre[other] => other = path
            /\ (op.step = 1 /\ run.snippets.MapperFullContent = <<>>) => files = pre
            /\ (op.step >= 3 /\ ~op.err) =>
                  /\ files[path].exists
                  /\ Contains(new, OrderedFragment(op.step))
                  /\ Len(new) > Len(old)
            /\ op.step = 8 =>
                  /\ pre[path].exists
                  /\ Contains(old, g)
                  /\ ~op.err =>
                       \E p \in 0..Len(old) :
                          /\ FirstOccurrence(old, g, p)
                          /\ new = Slice(old, 0, p + Len(g))
                                      \o <<"\n", "\n", "\t">> \o run.snippets.RouterLine
                                      \o SliceFrom(old, p + Len(g))

\* the steps of one run are made in the order of their numbers: a run starts
\* with step 0 when no run is under way, and every later step follows the
\* step numbered one less of a run that has not returned
InjectStepOrder ==
    op'.name = "injectGeneratedCode" =>
        IF op'.step = 0
        THEN op.name = "none" \/ op.done
        ELSE op.name = "injectGeneratedCode" /\ ~op.done /\ op'.step = op.step + 1

\* C11: injectGeneratedCode makes its steps in one fixed order: mapper
\* overwrite (only for a non-empty mapper content), route group, repository
\* interface, repository implementation, service interface, service
\* implementation, handler, router line; whenever the router-line step runs
\* the router file already holds the entity's group definition and the route
\* line is put directly after it.
C11_FixedOrder == []InjectStepEffect /\ [][InjectStepOrder]_vars

\* C11 happens: a run that had to create the route group has put its route
\* line after it, the mapper file overwritten on the way
C11_Witness ==
    /\ InjectStepMade
    /\ op.step = 8
    /\ ~op.err
    /\ run.snippets.MapperFullContent # <<>>
    /\ files[MapperPath(run.info)].content = run.snippets.MapperFullContent
    /\ ~Contains(run.start[RouterPath(run.paths)].content, GroupDefinition(run.info))
    /\ Contains(files[RouterPath(run.paths)].content,
                CreationCode(run.info) \o <<"\n", "\n", "\t">>
                    \o run.snippets.RouterLine)

\* ------------------------------------------------------------------------
\* parseRoutes (src/cmd/sync_router.go:80-143)
\* ------------------------------------------------------------------------

\* Paths are sequences of characters; DQ and BQ stand for the double quote
\* and the back quote that delimit a literal's source text (BasicLit.Value).
DQ == "dq"
BQ == "bq"

RECURSIVE TrimLeft(_, _)
TrimLeft(s, c) ==
    IF s # <<>> /\ Head(s) = c THEN TrimLeft(Tail(s), c) ELSE s

RECURSIVE TrimRight(_, _)
TrimRight(s, c) ==
    IF s # <<>> /\ s[Len(s)] = c THEN TrimRight(SubSeq(s, 1, Len(s) - 1), c) ELSE s

\* strings.Trim(s, c) for a one-character cutset
Trim(s, c) == TrimRight(TrimLeft(s, c), c)

RECURSIVE ReplaceSlashes(_)
\* line 119, strings.Replace(s, "//", "/", -1): one pass from the left over
\* the occurrences of "//" that do not overlap
ReplaceSlashes(s) ==
    IF Len(s) < 2 THEN s
    ELSE IF s[1] = "/" /\ s[2] = "/"
         THEN <<"/">> \o ReplaceSlashes(SubSeq(s, 3, Len(s)))
         ELSE <<s[1]>> \o ReplaceSlashes(Tail(s))

\* lines 96 and 118: the prefix every group path is given
ApiPrefix == <<"/", "a", "p", "i", "/", "v", "1">>

\* strings.ToUpper on the method names of the model
ToUpper(name) ==
    CASE name = "Post"  -> "POST"
      [] name = "Put"   -> "PUT"
      [] name = "get"   -> "GET"
      [] name = "Use"   -> "USE"
      [] name = "Group" -> "GROUP"
      [] OTHER          -> name

\* isHTTPMethod (lines 286-293)
isHTTPMethod(method) ==
    method \in {"GET", "POST", "PUT", "DELETE", "PATCH", "HEAD", "OPTIONS"}

\* An argument expression is [node, value, x, xsel, sel]:
\*   BasicLit      value is the source text of the literal
\*   Ident         sel is the name
\*   SelectorExpr  sel is the selected name, x the node kind of the operand,
\*                 xsel the operand's selected name when it is a selector
BasicLit(value) ==
    [node |-> "BasicLit", value |-> value, x |-> "", xsel |-> "", sel |-> ""]

Ident(name) ==
    [node |-> "Ident", value |-> <<>>, x |-> "", xsel |-> "", sel |-> name]

\* recv.handler.function
HandlerSelector(handler, function) ==
    [node |-> "SelectorExpr", value |-> <<>>, x |-> "SelectorExpr",
     xsel |-> handler, sel |-> function]

\* h.function
PlainSelector(function) ==
    [node |-> "SelectorExpr", value |-> <<>>, x |-> "Ident",
     xsel |-> "", sel |-> function]

\* A statement of the router file is a method call on.fun(args), standing
\* alone (ExprStmt) or as the right-hand side of an assignment (AssignStmt).
CallStmt(stmt, on, fun, args) ==
    [stmt |-> stmt, on |-> on, fun |-> fun, args |-> args]

\* a mutant of groupPrefix: the first group assignment stays in force
groupPrefixFirstOnly(stmt, currentGroupPrefix) ==
    IF /\ currentGroupPrefix = <<>>
       /\ stmt.stmt = "AssignStmt"
       /\ stmt.fun = "Group"
       /\ Len(stmt.args) > 0
       /\ stmt.args[1].node = "BasicLit"
    THEN ApiPrefix \o Trim(stmt.args[1].value, DQ)
    ELSE currentGroupPrefix

\* lines 91-101: currentGroupPrefix after the visit of a statement
groupPrefix(stmt, currentGroupPrefix) ==
    IF /\ stmt.stmt = "AssignStmt"
       /\ stmt.fun = "Group"
       /\ Len(stmt.args) > 0
       /\ stmt.args[1].node = "BasicLit"
    THEN ApiPrefix \o Trim(stmt.args[1].value, DQ)
    ELSE currentGroupPrefix

\* lines 103-117 and 121-124: the call is recorded as a route
isRouteCall(stmt) ==
    /\ isHTTPMethod(ToUpper(stmt.fun))
    /\ Len(stmt.args) >= 2
    /\ stmt.args[1].node = "BasicLit"
    /\ stmt.args[2].node = "SelectorExpr"
    /\ stmt.args[2].x = "SelectorExpr"

\* lines 118-135: the map after the visit of a call, under the prefix in force
recordRoute(stmt, currentGroupPrefix, routes) ==
    IF ~isRouteCall(stmt) THEN routes
    ELSE LET key   == <<stmt.args[2].xsel, stmt.args[2].sel>>
             entry == [HTTPMethod |-> ToUpper(stmt.fun),
                       Path       |-> ReplaceSlashes(currentGroupPrefix
                                        \o Trim(stmt.args[1].value, DQ)),
                       Handler    |-> stmt.args[2].xsel,
                       Function   |-> stmt.args[2].sel]
         IN  [k \in DOMAIN routes \cup {key} |->
                 IF k = key THEN entry ELSE routes[k]]

\* ------------------------------------------------------------------------
\* Specification SpecRoutes: parseRoutes scanning one router file
\* ------------------------------------------------------------------------

\* the most statements of a router file
MaxStmts == 3

StringLit(text) == BasicLit(<<DQ>> \o text \o <<DQ>>)
RawLit(text) == BasicLit(<<BQ>> \o text \o <<BQ>>)

\* the statements a router file is made of
RouterStmts ==
    {CallStmt("AssignStmt", "root", "Group", <<StringLit(<<"/", "w">>)>>),
     CallStmt("AssignStmt", "root", "Group", <<StringLit(<<"/", "w", "/">>)>>),
     CallStmt("AssignStmt", "root", "Group", <<Ident("prefix")>>),
     CallStmt("ExprStmt", "g", "Post",
              <<StringLit(<<"/">>), HandlerSelector("WidgetHandler", "Create")>>),
     CallStmt("ExprStmt", "app", "get",
              <<StringLit(<<"/", "/">>), HandlerSelector("WidgetHandler", "List")>>),
     CallStmt("ExprStmt", "g", "Put",
              <<StringLit(<<"/", "w">>), HandlerSelector("WidgetHandler", "Create")>>),
     CallStmt("AssignStmt", "g", "get",
              <<RawLit(<<"/", "w">>), HandlerSelector("WidgetHandler", "List")>>),
     CallStmt("ExprStmt", "g", "Use",
              <<StringLit(<<"/">>), HandlerSelector("WidgetHandler", "Create")>>),
     CallStmt("ExprStmt", "g", "Post",
              <<StringLit(<<"/">>), PlainSelector("Create")>>),
     CallStmt("ExprStmt", "g", "Post", <<StringLit(<<"/">>)>>),
     CallStmt("ExprStmt", "g", "Post",
              <<Ident("path"), HandlerSelector("WidgetHandler", "Create")>>)}

\* a router file is [parses, stmts]: the statements in the order ast.Inspect
\* visits them, or a file the parser rejects
RouterFiles ==
    {[parses |-> TRUE, stmts |-> st] : st \in SeqsUpTo(RouterStmts, MaxStmts)}
        \cup {[parses |-> FALSE, stmts |-> <<>>]}

InitRoutes ==
    /\ files \in [{"router"} -> RouterFiles]
    /\ pre = files
    /\ op = NoOp
    /\ pc = "idle"
    /\ run = <<>>
    /\ dirs = <<>>

\* lines 81-88: the file is parsed; the scan starts with no prefix and an
\* empty map
RoutesParse ==
    /\ pc = "idle"
    /\ op = NoOp
    /\ IF files["router"].parses
       THEN /\ pc' = "scan"
            /\ run' = [i |-> 1, currentGroupPrefix |-> <<>>, routes |-> <<>>]
            /\ op' = [name |-> "parser.ParseFile", err |-> FALSE]
       ELSE /\ pc' = "idle"
            /\ run' = run
            /\ op' = [name |-> "parseRoutes", err |-> TRUE, routes |-> <<>>]
    /\ UNCHANGED <<files, pre, dirs>>

\* lines 90-140: ast.Inspect visits the next statement: the assignment first,
\* the call in it after
RoutesVisit ==
    /\ pc = "scan"
    /\ run.i <= Len(files["router"].stmts)
    /\ LET stmt   == files["router"].stmts[run.i]
           prefix == groupPrefix(stmt, run.currentGroupPrefix)
       IN  run' = [i |-> run.i + 1,
                   currentGroupPrefix |-> prefix,
                   routes |-> recordRoute(stmt, prefix, run.routes)]
    /\ op' = [name |-> "ast.Inspect", err |-> FALSE]
    /\ UNCHANGED <<files, pre, pc, dirs>>

\* line 142: the map is returned
RoutesReturn ==
    /\ pc = "scan"
    /\ run.i > Len(files["router"].stmts)
    /\ pc' = "idle"
    /\ op' = [name |-> "parseRoutes", err |-> FALSE, routes |-> run.routes]
    /\ UNCHANGED <<files, pre, run, dirs>>

NextRoutes == RoutesParse \/ RoutesVisit \/ RoutesReturn

SpecRoutes == InitRoutes /\ [][NextRoutes]_vars

\* ------------------------------------------------------------------------
\* Claims about parseRoutes
\* ------------------------------------------------------------------------

\* parseRoutes has returned a map
RoutesReturned == op.name = "parseRoutes" /\ ~op.err

Stmts == files["router"].stmts

\* an assignment from a Group call whose first argument is a literal
IsGroupAssign(stmt) ==
    /\ stmt.stmt = "AssignStmt"
    /\ stmt.fun = "Group"
    /\ Len(stmt.args) > 0
    /\ stmt.args[1].node = "BasicLit"

GroupsBefore(i) == {j \in 1..(i - 1) : IsGroupAssign(Stmts[j])}

\* the text between the delimiters of a literal
LitText(lit) == SubSeq(lit.value, 2, Len(lit.value) - 1)

IsInterpreted(lit) == lit.value[1] = DQ

\* '/api/v1' + the literal of the most recent Group assignment before
\* statement i + the route literal; the route literal alone with none before
ConcatPath(i) ==
    IF GroupsBefore(i) = {} THEN LitText(Stmts[i].args[1])
    ELSE LET j == CHOOSE g \in GroupsBefore(i) : \A h \in GroupsBefore(i) : h <= g
         IN  ApiPrefix \o LitText(Stmts[j].args[1]) \o LitText(Stmts[i].args[1])

RouteKey(i) == <<Stmts[i].args[2].xsel, Stmts[i].args[2].sel>>

RouteCalls == {i \in 1..Len(Stmts) : isRouteCall(Stmts[i])}

\* no later call names the same handler method
LastForKey(i) == \A j \in RouteCalls : RouteKey(j) = RouteKey(i) => j <= i

\* C12 as stated: every HTTP-verb call with a literal path and a handler
\* selector receiver.HandlerType.Method has an entry under 'HandlerType.Method'
\* with the upper-cased verb and the path '/api/v1' + most recent preceding
\* Group literal + route literal, exactly concatenated.
C12_EveryCallRecorded ==
    RoutesReturned =>
        \A i \in RouteCalls :
            /\ RouteKey(i) \in DOMAIN op.routes
            /\ op.routes[RouteKey(i)].HTTPMethod = ToUpper(Stmts[i].fun)
            /\ op.routes[RouteKey(i)].Path = ConcatPath(i)

\* C12 amended: every such call has an entry under its key; the entry is the
\* one of the last call with that key, and, its path literal being an
\* interpreted string, holds the upper-cased verb and the concatenated path
\* after one left-to-right replacement of "//" by "/", whatever variable the
\* call is made on; nothing else is in the map.
C12_LastCallRecorded ==
    RoutesReturned =>
        /\ DOMAIN op.routes = {RouteKey(i) : i \in RouteCalls}
        /\ \A i \in RouteCalls :
               LastForKey(i) /\ IsInterpreted(Stmts[i].args[1]) =>
                   /\ op.routes[RouteKey(i)].HTTPMethod = ToUpper(Stmts[i].fun)
                   /\ op.routes[RouteKey(i)].Path = ReplaceSlashes(ConcatPath(i))
                   /\ op.routes[RouteKey(i)].Handler = RouteKey(i)[1]
                   /\ op.routes[RouteKey(i)].Function = RouteKey(i)[2]

\* g := root.Group("/w"); g.Post("/", x.WidgetHandler.Create), after another
\* group: the entry is {POST, /api/v1/w/}
C12_Witness ==
    /\ RoutesReturned
    /\ \E i \in RouteCalls :
           /\ Cardinality(GroupsBefore(i)) = 2
           /\ LastForKey(i)
           /\ Stmts[i].on = "g"
           /\ RouteKey(i) = <<"WidgetHandler", "Create">>
           /\ op.routes[RouteKey(i)]
                = [HTTPMethod |-> "POST",
                   Path       |-> ApiPrefix \o <<"/", "w", "/">>,
                   Handler    |-> "WidgetHandler",
                   Function   |-> "Create"]
           /\ ConcatPath(i) = ApiPrefix \o <<"/", "w", "/">>

\* C13: no recorded path holds two consecutive '/'.
C13_NoDoubleSlash ==
    RoutesReturned =>
        \A k \in DOMAIN op.routes : ~Contains(op.routes[k].Path, <<"/", "/">>)

\* ------------------------------------------------------------------------
\* The generate command: parseEntityFile (part_001:276-373)
\* ------------------------------------------------------------------------

\* An entity file is [exists, parses, structs, tableName]: structs are the
\* struct type declarations in source order, each [name, fields]; a field is
\* [name, primaryKey], name <<>> for an embedded field, primaryKey telling
\* that its gorm tag holds the part primaryKey; tableName is the literal the
\* method TableName returns, <<>> without one.
StructField(name, primaryKey) == [name |-> name, primaryKey |-> primaryKey]

StructType(name, fields) == [name |-> name, fields |-> fields]

EntitySource(structs, tableName) ==
    [exists |-> TRUE, parses |-> TRUE, structs |-> structs, tableName |-> tableName]

EntityGarbage == [exists |-> TRUE, parses |-> FALSE, structs |-> <<>>, tableName |-> <<>>]

EntityMissing == [exists |-> FALSE, parses |-> FALSE, structs |-> <<>>, tableName |-> <<>>]

\* lines 292-294: the fields of the structs that have a name, in scan order
NamedFields(structs) ==
    LET all == Flatten([i \in 1..Len(structs) |-> structs[i].fields])
    IN  SelectSeq(all, LAMBDA fd : fd.name # <<>>)

\* lines 337-339: the last named field whose tag holds primaryKey; <<>> when
\* there is none
PrimaryKeyName(structs) ==
    LET keys == SelectSeq(NamedFields(structs), LAMBDA fd : fd.primaryKey)
    IN  IF keys = <<>> THEN <<>> ELSE keys[Len(keys)].name

\* a mutant of parseEntityFile: the primary key is not required
parseEntityFileAnyKey(f, projectModule) ==
    LET entityName == IF f.structs = <<>> THEN <<>> ELSE f.structs[Len(f.structs)].name
        none == [err |-> TRUE, EntityName |-> <<>>, LowerEntityName |-> <<>>,
                 TableName |-> <<>>, Fields |-> <<>>, PrimaryKey |-> <<>>]
    IN  IF ~f.exists \/ ~f.parses THEN none
        ELSE IF entityName = <<>> THEN none
        ELSE [err |-> FALSE,
              EntityName |-> entityName,
              LowerEntityName |-> ToLowerCamel(entityName),
              TableName |-> IF f.tableName = <<>>
                            THEN ToSnakeCase(entityName) \o <<"s">>
                            ELSE f.tableName,
              Fields |-> NamedFields(f.structs),
              PrimaryKey |-> PrimaryKeyName(f.structs)]

\* parseEntityFile: the error flag and the fields of EntityInfo the command
\* reads.  Every struct of the file sets EntityName (lines 288-290), so the
\* last one names the entity.
parseEntityFile(f, projectModule) ==
    LET entityName == IF f.structs = <<>> THEN <<>> ELSE f.structs[Len(f.structs)].name
        none == [err |-> TRUE, EntityName |-> <<>>, LowerEntityName |-> <<>>,
                 TableName |-> <<>>, Fields |-> <<>>, PrimaryKey |-> <<>>]
    IN  IF ~f.exists \/ ~f.parses THEN none
        ELSE IF entityName = <<>> THEN none
        ELSE IF PrimaryKeyName(f.structs) = <<>> THEN none
        ELSE [err |-> FALSE,
              EntityName |-> entityName,
              LowerEntityName |-> ToLowerCamel(entityName),
              TableName |-> IF f.tableName = <<>>
                            THEN ToSnakeCase(entityName) \o <<"s">>
                            ELSE f.tableName,
              Fields |-> NamedFields(f.structs),
              PrimaryKey |-> PrimaryKeyName(f.structs)]

\* isDDDProject (part_001:86-89)
isDDDProject(d) == d.application

\* runGenerate, lines 95-122: the PathConfig of the layout
PathConfig(d) ==
    IF isDDDProject(d)
    THEN [IsDDD |-> TRUE,
          DIFile |-> "internal/di/container.go",
          RouterFile |-> "internal/infrastructure/router/router.go"]
    ELSE [IsDDD |-> FALSE,
          DIFile |-> "internal/di/container.go",
          RouterFile |-> "internal/adapter/router/router.go"]

\* ------------------------------------------------------------------------
\* The generate-side modifiers (modifier.go)
\* ------------------------------------------------------------------------

\* Go source files are token sequences as before.  A file the parser accepts
\* starts with its package clause and holds no SyntaxError token.
SyntaxError == "<syntax error>"

PackageClauses == {"package di", "package router"}

GoParses(content) ==
    /\ content # <<>>
    /\ Head(content) \in PackageClauses
    /\ \A i \in 1..Len(content) : content[i] # SyntaxError

\* the tokens of s, each with the two tokens that follow it
WithNext(s) ==
    [i \in 1..Len(s) |->
        [tok   |-> s[i],
         next  |-> IF i + 1 <= Len(s) THEN s[i + 1] ELSE "",
         next2 |-> IF i + 2 <= Len(s) THEN s[i + 2] ELSE ""]]

Tokens(ws) == [i \in 1..Len(ws) |-> ws[i].tok]

\* gofmt: white space at the end of a line is dropped
StripTrailingTabs(s) ==
    Tokens(SelectSeq(WithNext(s), LAMBDA w : ~(w.tok = "\t" /\ w.next = "\n")))

\* gofmt: a run of blank lines becomes one blank line
CollapseBlankLines(s) ==
    Tokens(SelectSeq(WithNext(s),
                     LAMBDA w : ~(w.tok = "\n" /\ w.next = "\n" /\ w.next2 = "\n")))

\* format.Node and format.Source on a file that parses
Gofmt(content) == CollapseBlankLines(StripTrailingTabs(content))

\* strings.Replace(s, old, new, 1)
ReplaceFirst(s, old, new) ==
    LET i == Index(s, old)
    IN  IF i = -1 THEN s
        ELSE Slice(s, 0, i) \o new \o SliceFrom(s, i + Len(old))

\* modifier.go:52 and 193
GeneratorAnchor == <<"// [GENERATOR ANCHOR] - Don't remove this comment!">>

\* astutil.AddImport: the import is added after the package clause unless the
\* file imports the path already
AddImport(content, path) ==
    IF Contains(content, <<"import ", path>>) THEN content
    ELSE <<Head(content), "\n", "import ", path>> \o Tail(content)

RECURSIVE AddImports(_, _)
AddImports(content, pkgPaths) ==
    IF pkgPaths = <<>> THEN content
    ELSE AddImports(AddImport(content, Head(pkgPaths)), Tail(pkgPaths))

\* runGenerate, lines 102-106 and 114-118: PathConfig.DIImports
DIImports(paths) ==
    IF paths.IsDDD
    THEN <<"/internal/infrastructure/persistence", "/internal/application/service",
           "/internal/interfaces/handler">>
    ELSE <<"/internal/adapter/repository", "/internal/usecase/service",
           "/internal/adapter/handler">>

\* runGenerate, lines 101 and 113: PathConfig.HandlerPackagePath
HandlerPackagePath(paths) ==
    IF paths.IsDDD THEN "/internal/interfaces/handler" ELSE "/internal/adapter/handler"

\* modifySourceFile (modifier.go:17-34) with the tree edit given as the
\* content it leaves: parse, edit, format.Node, os.WriteFile
modifySourceFile(f, edited) ==
    LET rd == ReadFile(f)
        wr == WriteFile(f, Gofmt(edited))
    IN  IF rd.err # "nil" \/ ~GoParses(rd.data) THEN [err |-> TRUE, file |-> f]
        ELSE [err |-> wr.err, file |-> wr.file]

\* ensureImportsForDI (modifier.go:88-95)
ensureImportsForDI(f, info, paths) ==
    modifySourceFile(f, AddImports(f.content, DIImports(paths)))

\* modifier.go:44, the marker of the provider block
ProviderCheck(info) == <<"// ">> \o info.EntityName \o <<" Providers">>

\* modifier.go:54-67, the rendered provider template: the block and the anchor
ProviderBlock(info, paths) ==
    <<"\n", "\t">> \o ProviderCheck(info)
        \o <<"\n", "\t", IF paths.IsDDD THEN "persistence.New" ELSE "repository.New">>
        \o info.EntityName \o <<"Repository,">>
        \o <<"\n", "\t", "service.New">> \o info.EntityName \o <<"Service,">>
        \o <<"\n", "\t", "handler.New">> \o info.EntityName \o <<"Handler,">>
        \o <<"\n", "\t">> \o GeneratorAnchor

\* a mutant of addProviderToDI: the marker is not looked for
addProviderToDIUnguarded(f, info, paths) ==
    LET rd == ReadFile(f)
        wr == WriteFile(f, ReplaceFirst(rd.data, GeneratorAnchor, ProviderBlock(info, paths)))
    IN  IF rd.err # "nil" THEN [err |-> TRUE, file |-> f]
        ELSE IF wr.err THEN [err |-> TRUE, file |-> wr.file]
        ELSE ensureImportsForDI(wr.file, info, paths)

\* addProviderToDI (modifier.go:36-86): the error flag and the DI file it
\* leaves
addProviderToDI(f, info, paths) ==
    LET rd == ReadFile(f)
        wr == WriteFile(f, ReplaceFirst(rd.data, GeneratorAnchor, ProviderBlock(info, paths)))
    IN  IF rd.err # "nil" THEN [err |-> TRUE, file |-> f]
        ELSE IF Contains(rd.data, ProviderCheck(info))
             THEN ensureImportsForDI(f, info, paths)
        ELSE IF wr.err THEN [err |-> TRUE, file |-> wr.file]
        ELSE ensureImportsForDI(wr.file, info, paths)

\* The declarations of the router file, as token sequences:
\*   type Router struct { fields }
\*   func NewRouter( params ) *Router { return &Router{ keys } }
StructOpen  == <<"type Router struct {">>
StructClose == <<"\n", "} // struct">>
ParamsOpen  == <<"func NewRouter(">>
ParamsClose == <<") *Router {">>
ReturnOpen  == <<"return &Router{">>
ReturnClose == <<"} // literal">>

\* modifier.go:102-104
HandlerName(info) == info.EntityName \o <<"Handler">>
HandlerTypeExpr(info) == <<"*handler.">> \o info.EntityName \o <<"Handler">>
ParamName(info) == ToLowerCamel(HandlerName(info))

\* the tokens of a struct field, of a parameter and of a key of the literal
FieldTokens(name, type) == <<"\n", "\t", "field ">> \o name \o <<" ">> \o type
ParamTokens(name, type) == <<"param ">> \o name \o <<" ">> \o type \o <<", ">>
KeyTokens(key, value)   == <<"key ">> \o key \o <<": ">> \o value \o <<", ">>

\* the part of content between the first open and the close that follows it;
\* <<>> when the declaration is missing
Section(content, open, close) ==
    LET o == Index(content, open)
        c == Index(SliceFrom(content, o + Len(open)), close)
    IN  IF o = -1 \/ c = -1 THEN <<>>
        ELSE Slice(content, o + Len(open), o + Len(open) + c)

HasSection(content, open, close) ==
    /\ Index(content, open) # -1
    /\ Index(SliceFrom(content, Index(content, open) + Len(open)), close) # -1

\* the declaration named name is appended to the section unless the section
\* names it already (lines 109-123, 128-142, 148-163)
AppendToSection(content, open, close, present, tokens) ==
    LET o == Index(content, open)
        c == o + Len(open) + Index(SliceFrom(content, o + Len(open)), close)
    IN  IF ~HasSection(content, open, close) THEN content
        ELSE IF Contains(Section(content, open, close), present) THEN content
        ELSE Slice(content, 0, c) \o tokens \o SliceFrom(content, c)

\* lines 106-172: the tree edit of addHandlerToRouter; the return literal is
\* looked for only inside NewRouter
AddHandler(content, info, paths) ==
    LET withField == AppendToSection(content, StructOpen, StructClose,
                         <<"field ">> \o HandlerName(info) \o <<" ">>,
                         FieldTokens(HandlerName(info), HandlerTypeExpr(info)))
        withParam == AppendToSection(withField, ParamsOpen, ParamsClose,
                         <<"param ">> \o ParamName(info) \o <<" ">>,
                         ParamTokens(ParamName(info), HandlerTypeExpr(info)))
        withKey   == IF HasSection(withParam, ParamsOpen, ParamsClose)
                     THEN AppendToSection(withParam, ReturnOpen, ReturnClose,
                              <<"key ">> \o HandlerName(info) \o <<": ">>,
                              KeyTokens(HandlerName(info), ParamName(info)))
                     ELSE withParam
    IN  AddImport(withKey, HandlerPackagePath(paths))

\* addHandlerToRouter (modifier.go:97-175)
addHandlerToRouter(f, info, paths) ==
    modifySourceFile(f, AddHandler(f.content, info, paths))

\* modifier.go:185, the marker of the route block
RouteCheck(info) == <<"// ">> \o info.EntityName \o <<" routes">>

\* modifier.go:197-201, the five CRUD registrations
CrudRoutes(info) ==
    LET line(verb, path, fn) ==
            <<"\n", "\t">> \o info.LowerEntityName \o <<"Routes.", verb, "(", path, ", r.">>
                \o info.EntityName \o <<"Handler.", fn, ")">>
    IN  line("Post", "/", "Create") \o line("Get", "/", "GetAll")
            \o line("Get", "/:id", "GetByID") \o line("Put", "/:id", "Update")
            \o line("Delete", "/:id", "Delete")

\* modifier.go:194-203, the rendered route template: the block and the anchor
RouteBlock(info) ==
    <<"\n", "\t">> \o RouteCheck(info)
        \o <<"\n", "\t">> \o GroupDefinition(info)
        \o CrudRoutes(info)
        \o <<"\n", "\n", "\t">> \o GeneratorAnchor

\* addRoutesToRouter (modifier.go:177-223)
addRoutesToRouter(f, info) ==
    LET rd         == ReadFile(f)
        newContent == ReplaceFirst(rd.data, GeneratorAnchor, RouteBlock(info))
        wr         == WriteFile(f, IF GoParses(newContent) THEN Gofmt(newContent)
                                   ELSE newContent)
    IN  IF rd.err # "nil" THEN [err |-> TRUE, file |-> f]
        ELSE IF Contains(rd.data, RouteCheck(info)) THEN [err |-> FALSE, file |-> f]
        ELSE [err |-> wr.err, file |-> wr.file]

\* ------------------------------------------------------------------------
\* generateCode (part_001:161-230) and the runs of the generate command
\* ------------------------------------------------------------------------

\* lines 163-181: the generation tasks of the layout, [TemplatePath,
\* OutputDir, Suffix]; the file of a task is OutputDir/snake_name + Suffix
GenerationTasks(paths) ==
    IF paths.IsDDD
    THEN << [TemplatePath |-> "dto.go.ddd.tmpl", OutputDir |-> "internal/interfaces/dto",
             Suffix |-> ".go"],
            [TemplatePath |-> "mapper.go.ddd.tmpl", OutputDir |-> "internal/interfaces/dto",
             Suffix |-> "_mapper.go"],
            [TemplatePath |-> "repository_interface.go.ddd.tmpl",
             OutputDir |-> "internal/domain/repository", Suffix |-> "_repository.go"],
            [TemplatePath |-> "repository_impl.go.ddd.tmpl",
             OutputDir |-> "internal/infrastructure/persistence",
             Suffix |-> "_repository_impl.go"],
            [TemplatePath |-> "service.go.ddd.tmpl",
             OutputDir |-> "internal/application/service", Suffix |-> "_service.go"],
            [TemplatePath |-> "handler.go.ddd.tmpl",
             OutputDir |-> "internal/interfaces/handler", Suffix |-> "_handler.go"] >>
    ELSE << [TemplatePath |-> "dto.go.tmpl", OutputDir |-> "internal/adapter/dto",
             Suffix |-> ".go"],
            [TemplatePath |-> "repository_interface.go.tmpl",
             OutputDir |-> "internal/domain/ports", Suffix |-> "_repository.go"],
            [TemplatePath |-> "repository_impl.go.tmpl",
             OutputDir |-> "internal/adapter/repository", Suffix |-> "_repository_impl.go"],
            [TemplatePath |-> "service.go.tmpl",
             OutputDir |-> "internal/usecase/service", Suffix |-> "_service.go"],
            [TemplatePath |-> "handler.go.tmpl",
             OutputDir |-> "internal/adapter/handler", Suffix |-> "_handler.go"] >>

\* lines 184-188
TaskPath(task, info) == EntityFile(task.OutputDir, info, task.Suffix)

\* What a template renders to.  The templates are embedded files; of their
\* text the model keeps the interface declaration the later insertions look
\* for, and the template's name for the rest.
ExecuteTemplate(task, info) ==
    IF task.Suffix = "_repository.go"
    THEN <<"type ">> \o info.EntityName \o <<"Repository interface", " ", "{", "\n", "}">>
    ELSE IF task.Suffix = "_service.go"
    THEN <<"type ">> \o info.EntityName \o <<"Service interface", " ", "{", "\n", "}">>
    ELSE <<task.TemplatePath>> \o info.EntityName

\* a mutant of the loop body: the check of forceGenerate is left out
GenerateFileForced(f, task, info, forceGenerate, d) ==
    IF task.OutputDir = "internal/interfaces/dto" /\ MkdirAll(d.dto).err THEN f
    ELSE WriteFile(f, ExecuteTemplate(task, info)).file

\* lines 192-228, one task: an existing file is kept unless forced, a
\* directory that cannot be made and a failed write are reported and skipped
GenerateFile(f, task, info, forceGenerate, d) ==
    IF f.exists /\ ~forceGenerate THEN f
    ELSE IF task.OutputDir = "internal/interfaces/dto" /\ MkdirAll(d.dto).err THEN f
    ELSE WriteFile(f, ExecuteTemplate(task, info)).file

\* generateCode: the tree it leaves
generateCode(fs, info, paths, forceGenerate, d) ==
    LET tasks == GenerationTasks(paths)
    IN  [p \in DOMAIN fs |->
            IF \E k \in 1..Len(tasks) : TaskPath(tasks[k], info) = p
            THEN LET k == CHOOSE k \in 1..Len(tasks) : TaskPath(tasks[k], info) = p
                 IN  GenerateFile(fs[p], tasks[k], info, forceGenerate, d)
            ELSE fs[p]]

\* lines 204-207: the directories generateCode has made
generateDirs(fs, info, paths, forceGenerate, d) ==
    LET tasks == GenerationTasks(paths)
    IN  IF \E k \in 1..Len(tasks) :
              /\ tasks[k].OutputDir = "internal/interfaces/dto"
              /\ ~(fs[TaskPath(tasks[k], info)].exists /\ ~forceGenerate)
        THEN [d EXCEPT !.dto = MkdirAll(d.dto).dto]
        ELSE d

\* part_000:33-45, FormatImport and FormatFile: goimports and gofumpt rewrite
\* the Go files of the tree that parse; their errors are dropped
FormatTree(fs) ==
    [p \in DOMAIN fs |->
        IF /\ "content" \in DOMAIN fs[p]
           /\ fs[p].exists
           /\ fs[p].perm = "rw"
           /\ GoParses(fs[p].content)
        THEN Present(fs[p].perm, Gofmt(fs[p].content))
        ELSE fs[p]]

DIPath(paths) == <<paths.DIFile>>

GenOp(step, err, done) ==
    [name |-> "runGenerate", step |-> step, err |-> err, done |-> done]

\* lines 91-137: the layout is chosen, go.mod and the entity file are read;
\* the flags are read only after that
GenBegin ==
    /\ pc = "idle"
    /\ run.n < MaxRuns
    /\ \E forceGenerate \in BOOLEAN, noCrudMethods \in BOOLEAN :
        LET paths  == PathConfig(dirs)
            module == ReadFile(files[<<"go.mod">>])
            info   == parseEntityFile(files[<<"entity">>], "module")
            err    == module.err # "nil" \/ info.err
        IN  /\ run' = [kind |-> "generate", n |-> run.n + 1, entity |-> run.entity,
                       api |-> run.api, info |-> info, paths |-> paths,
                       forceGenerate |-> ~err /\ forceGenerate,
                       NoCrudMethods |-> ~err /\ noCrudMethods, start |-> files]
            /\ pc' = IF err THEN "idle" ELSE "generateCode"
            /\ op' = GenOp("parseEntityFile", err, err)
    /\ pre' = files
    /\ UNCHANGED <<files, dirs>>

\* line 139
GenCode ==
    /\ pc = "generateCode"
    /\ files' = generateCode(files, run.info, run.paths, run.forceGenerate, dirs)
    /\ dirs' = generateDirs(files, run.info, run.paths, run.forceGenerate, dirs)
    /\ pc' = "addProviderToDI"
    /\ op' = GenOp("generateCode", FALSE, FALSE)
    /\ pre' = files
    /\ UNCHANGED run

\* lines 141-144
GenProvider ==
    /\ pc = "addProviderToDI"
    /\ LET path == DIPath(run.paths)
           r    == addProviderToDI(files[path], run.info, run.paths)
       IN  /\ files' = [files EXCEPT ![path] = r.file]
           /\ pc' = IF r.err THEN "idle" ELSE "addHandlerToRouter"
           /\ op' = GenOp("addProviderToDI", r.err, r.err)
    /\ pre' = files
    /\ UNCHANGED <<run, dirs>>

\* lines 145-148
GenHandler ==
    /\ pc = "addHandlerToRouter"
    /\ LET path == RouterPath(run.paths)
           r    == addHandlerToRouter(files[path], run.info, run.paths)
       IN  /\ files' = [files EXCEPT ![path] = r.file]
           /\ pc' = IF r.err THEN "idle"
                    ELSE IF run.NoCrudMethods THEN "format"
                    ELSE "addRoutesToRouter"
           /\ op' = GenOp("addHandlerToRouter", r.err, r.err)
    /\ pre' = files
    /\ UNCHANGED <<run, dirs>>

\* lines 149-154
GenRoutes ==
    /\ pc = "addRoutesToRouter"
    /\ LET path == RouterPath(run.paths)
           r    == addRoutesToRouter(files[path], run.info)
       IN  /\ files' = [files EXCEPT ![path] = r.file]
           /\ pc' = IF r.err THEN "idle" ELSE "format"
           /\ op' = GenOp("addRoutesToRouter", r.err, r.err)
    /\ pre' = files
    /\ UNCHANGED <<run, dirs>>

\* lines 156-159: the formatters run if they are installed, and the command
\* returns
GenFormat ==
    /\ pc = "format"
    /\ \E installed \in BOOLEAN :
        files' = IF installed THEN FormatTree(files) ELSE files
    /\ pc' = "idle"
    /\ op' = GenOp("FormatFile", FALSE, TRUE)
    /\ pre' = files
    /\ UNCHANGED <<run, dirs>>

\* a gen-api run starts on the same tree (client.go:539-543)
ApiBegin ==
    /\ pc = "idle"
    /\ run.n < MaxRuns
    /\ \E method \in Methods, snippets \in InjectSnippets :
        LET info  == buildApiInfo(run.entity, method)
            paths == GetProjectPaths(dirs)
        IN  /\ run' = [kind |-> "inject", n |-> run.n + 1, entity |-> run.entity,
                       api |-> run.api + 1,
                       info |-> info, snippets |-> snippets, paths |-> paths,
                       start |-> files, k |-> 0, again |-> FALSE]
            /\ pc' = IF paths.err THEN "idle" ELSE "mapper"
            /\ op' = InjectOp(StepPaths, paths.err, paths.err)
    /\ pre' = files
    /\ UNCHANGED <<files, dirs>>

\* ------------------------------------------------------------------------
\* Specification SpecGenerate: generate and gen-api runs on one project tree
\* ------------------------------------------------------------------------

\* the entity the project tree is about
GenEntities == {<<"U">>}

\* the entity files: a struct with a primary key, one without, a struct
\* without a key after another struct with one, a struct with a TableName
\* method, a file with no struct, a file that does not parse
EntitySources(entity) ==
    {EntitySource(<<StructType(entity, <<StructField(<<"I">>, TRUE),
                                         StructField(<<"N">>, FALSE)>>)>>, <<>>),
     EntitySource(<<StructType(entity, <<StructField(<<>>, FALSE),
                                         StructField(<<"N">>, FALSE)>>)>>, <<>>),
     EntitySource(<<StructType(<<"O">>, <<StructField(<<"I">>, TRUE)>>),
                    StructType(entity, <<StructField(<<"N">>, FALSE)>>)>>, <<>>),
     EntitySource(<<StructType(entity, <<StructField(<<"I">>, TRUE)>>)>>, <<"t">>),
     EntitySource(<<>>, <<>>),
     EntityGarbage}

\* internal/di/container.go as the scaffold makes it
DIScaffold ==
    Present("rw", <<"package di", "\n", "var ProviderSet = wire.NewSet(", "\n", "\t">>
                      \o GeneratorAnchor \o <<"\n", ")">>)

\* the DI file: as the scaffold makes it, unparsable, missing
DIStates ==
    {DIScaffold,
     Present("rw", <<"package di", "\n", SyntaxError, "\n", "\t">> \o GeneratorAnchor),
     Absent("rw")}

\* the declarations of the scaffold's router file
RouterDecls ==
    <<"package router", "\n">> \o StructOpen \o StructClose
        \o <<"\n">> \o ParamsOpen \o ParamsClose
        \o <<"\n", "\t">> \o ReturnOpen \o ReturnClose \o <<"\n", "}", "\n">>

\* router.go as the scaffold makes it, with blank lines gofmt would drop
RouterScaffold ==
    Present("rw", RouterDecls \o RouterOpen \o ApiV1Anchor \o <<"\n", "\n", "\n", "\t">>
                      \o GeneratorAnchor \o RouterClose)

\* the router file: as the scaffold makes it, unparsable, read-only
GenRouterStates ==
    {RouterScaffold,
     Present("rw", <<"package router", SyntaxError, "\n">> \o RouterOpen \o ApiV1Anchor
                       \o <<"\n", "\t">> \o GeneratorAnchor \o RouterClose),
     Present("ro", RouterDecls \o RouterOpen \o ApiV1Anchor \o <<"\n", "\t">>
                       \o GeneratorAnchor \o RouterClose)}

\* the tree of a project: the entity file, go.mod, the DI file, the router
\* file, and the layer files of the layout, generated already or missing
GenerateTree(d, entity, source, gomod, di, router, generated) ==
    LET paths == PathConfig(d)
        info  == [EntityName |-> entity]
        tasks == GenerationTasks(paths)
        outs  == {TaskPath(tasks[k], info) : k \in 1..Len(tasks)} \cup {MapperPath(info)}
    IN  (<<"entity">> :> source)
            @@ (<<"go.mod">> :> gomod)
            @@ (DIPath(paths) :> di)
            @@ (RouterPath(paths) :> router)
            @@ [p \in outs |->
                   IF generated /\ \E k \in 1..Len(tasks) : TaskPath(tasks[k], info) = p
                   THEN Present("rw", ExecuteTemplate(
                            tasks[CHOOSE k \in 1..Len(tasks) : TaskPath(tasks[k], info) = p],
                            info))
                   ELSE Absent("rw")]

\* the trees explored: every DI and router state under an entity file that
\* parses to an entity, and the scaffold's files under every entity file
InitGenerate ==
    \E entity \in GenEntities, application \in BOOLEAN, usecase \in BOOLEAN,
       gomod \in {Present("rw", <<"module m">>), Absent("rw")},
       di \in DIStates, router \in GenRouterStates, generated \in BOOLEAN :
      \E source \in EntitySources(entity) :
        /\ \/ gomod.exists /\ ~parseEntityFile(source, "module").err
           \/ di = DIScaffold /\ router = RouterScaffold /\ ~generated
        /\ dirs = Dirs(application, usecase, "none")
        /\ files = GenerateTree(dirs, entity, source, gomod, di, router, generated)
        /\ run = [kind |-> "none", n |-> 0, entity |-> entity, api |-> 0]
        /\ pre = files
        /\ op = NoOp
        /\ pc = "idle"

NextGenerate ==
    \/ GenBegin
    \/ GenCode
    \/ GenProvider
    \/ GenHandler
    \/ GenRoutes
    \/ GenFormat
    \/ ApiBegin
    \/ InjectMapper
    \/ InjectGroup
    \/ InjectTask

SpecGenerate == InitGenerate /\ [][NextGenerate]_vars

\* ------------------------------------------------------------------------
\* Claims about the generate command
\* ------------------------------------------------------------------------

\* the current run is one of the generate command
Generating == run.kind = "generate"

EntityFileNow == files[<<"entity">>]

\* the entity file parses and none of its fields is tagged primaryKey
NoPrimaryKey(f) ==
    /\ f.exists
    /\ f.parses
    /\ \A i \in 1..Len(f.structs) :
           \A j \in 1..Len(f.structs[i].fields) : ~f.structs[i].fields[j].primaryKey

\* C17: when no field of the entity file is tagged primaryKey, the parse
\* fails, the run returns with that error, and no file of the tree is
\* created or modified in the run: generateCode, addProviderToDI and the
\* router modifiers never run.
C17_NoKeyNoOutput ==
    (Generating /\ NoPrimaryKey(EntityFileNow)) =>
        /\ op = GenOp("parseEntityFile", TRUE, TRUE)
        /\ pc = "idle"
        /\ files = run.start

\* C17 witness: a run on a project with go.mod, the scaffold's DI and router
\* files and a struct whose only named field has no key has returned
C17_Witness ==
    /\ Generating
    /\ NoPrimaryKey(EntityFileNow)
    /\ NamedFields(EntityFileNow.structs) # <<>>
    /\ files[<<"go.mod">>].exists
    /\ files[DIPath(run.paths)] = DIScaffold
    /\ files[RouterPath(run.paths)] = RouterScaffold
    /\ op.err
    /\ op.done

\* the named fields of a struct, in declaration order
NamedFieldsOf(struct) == SelectSeq(struct.fields, LAMBDA fd : fd.name # <<>>)

\* C24: the descriptor parseEntityFile returns describes a single struct: its
\* Fields are exactly the named fields, in declaration order, of the struct
\* whose name is EntityName, and PrimaryKey is one of them, also when the
\* entity file declares more than one struct type.
C24_DescribesOneStruct ==
    (Generating /\ ~run.info.err) =>
        \E i \in 1..Len(EntityFileNow.structs) :
            LET struct == EntityFileNow.structs[i]
            IN  /\ struct.name = run.info.EntityName
                /\ run.info.Fields = NamedFieldsOf(struct)
                /\ \E j \in 1..Len(run.info.Fields) :
                       run.info.Fields[j].name = run.info.PrimaryKey

\* C24 for a file with one struct type: the descriptor describes it
C24_OneStructFile ==
    (Generating /\ ~run.info.err /\ Len(EntityFileNow.structs) = 1) =>
        C24_DescribesOneStruct


\* exactly one of the two marker directories exists
ExactlyOneLayout == dirs.application # dirs.usecase

\* the router file of the preset of the layout that is present
PresetRouterFile ==
    IF dirs.application THEN "internal/infrastructure/router/router.go"
    ELSE "internal/adapter/router/router.go"

\* the command that is running, or ran last, resolved the project's paths
PathsResolved ==
    \/ Generating
    \/ run.kind = "inject" /\ ~run.paths.err

\* C18 (as claimed): in every command the path resolution fails unless
\* exactly one marker directory exists, and the preset it returns is that of
\* the one layout present.
C18_SingleLayoutOrError ==
    run.kind \in {"generate", "inject"} =>
        IF ExactlyOneLayout
        THEN PathsResolved => run.paths.RouterFile = PresetRouterFile
        ELSE ~PathsResolved

\* the number of occurrences of sub in s
Count(s, sub) == Cardinality({i \in 0..(Len(s) - Len(sub)) : OccursAt(s, sub, i)})

\* the entity of the tree as the generate command describes it
TreeInfo ==
    [EntityName |-> run.entity, LowerEntityName |-> ToLowerCamel(run.entity)]

\* the content of the router file and of the DI file of the tree
RouterNow == files[RouterPath(PathConfig(dirs))].content
DINow == files[DIPath(PathConfig(dirs))].content

\* C19 (as claimed): in every state the marker '// E routes' is in the
\* router file only if E's five CRUD registrations are, after a group line
\* of E; and addRoutesToRouter never skips E while they are missing.
C19_MarkerMeansRoutes ==
    /\ Contains(RouterNow, RouteCheck(TreeInfo)) =>
           /\ Contains(RouterNow, CrudRoutes(TreeInfo))
           /\ Contains(RouterNow, TreeInfo.LowerEntityName \o <<"Routes := apiV1.Group(/">>)
    /\ (op = GenOp("addRoutesToRouter", FALSE, FALSE)) =>
           Contains(RouterNow, CrudRoutes(TreeInfo))

\* the lines of E's provider block and of E's route block
ProviderLines ==
    LET block == ProviderBlock(TreeInfo, PathConfig(dirs))
    IN  SubSeq(block, 3, Len(block) - 3)

RouteLines ==
    RouteCheck(TreeInfo) \o <<"\n", "\t">> \o TreeInfo.LowerEntityName
        \o <<"Routes := apiV1.Group(/">> \o run.info.TableName \o <<")">>
        \o CrudRoutes(TreeInfo)

HandlerField == <<"field ">> \o run.entity \o <<"Handler", " ">>
HandlerParam == <<"param ">> \o ToLowerCamel(run.entity) \o <<"Handler", " ">>
HandlerKey   == <<"key ">> \o run.entity \o <<"Handler", ": ">>

\* the step reported last belongs to a generate run on a tree no gen-api run
\* has touched, and did not fail
StepDone(step) ==
    /\ Generating
    /\ run.api = 0
    /\ op.name = "runGenerate"
    /\ op.step = step
    /\ ~op.err

\* the run in progress started on a tree that held E's blocks already
StartedComplete ==
    /\ Contains(run.start[DIPath(run.paths)].content, ProviderLines)
    /\ Contains(run.start[RouterPath(run.paths)].content, HandlerField)
    /\ Contains(run.start[RouterPath(run.paths)].content, RouteLines)

\* C20: the generate-side modifiers are idempotent.  Whatever the number of
\* generate runs, E's provider block, E's field, parameter and key and E's
\* route block never occur twice; a modifier that has run without error
\* leaves what it adds exactly once; and a run on a tree that holds them all
\* changes neither the DI file nor the router file.
C20_ModifiersIdempotent ==
    (Generating /\ run.api = 0) =>
        /\ Count(DINow, ProviderCheck(TreeInfo)) <= 1
        /\ Count(RouterNow, HandlerField) <= 1
        /\ Count(RouterNow, HandlerParam) <= 1
        /\ Count(RouterNow, HandlerKey) <= 1
        /\ Count(RouterNow, RouteCheck(TreeInfo)) <= 1
        /\ StepDone("addProviderToDI") => Count(DINow, ProviderLines) = 1
        /\ StepDone("addHandlerToRouter") =>
               /\ Count(RouterNow, HandlerField) = 1
               /\ Count(RouterNow, HandlerParam) = 1
               /\ Count(RouterNow, HandlerKey) = 1
        /\ StepDone("addRoutesToRouter") => Count(RouterNow, RouteLines) = 1
        /\ (StepDone("FormatFile") /\ StartedComplete) =>
               /\ DINow = run.start[DIPath(run.paths)].content
               /\ RouterNow = run.start[RouterPath(run.paths)].content

\* C20 witness: a second complete run has returned on the tree the first one
\* left
C20_Witness ==
    /\ StepDone("FormatFile")
    /\ op.done
    /\ run.n = 2
    /\ ~run.NoCrudMethods
    /\ StartedComplete
    /\ Count(DINow, ProviderLines) = 1
    /\ Count(RouterNow, RouteLines) = 1
    /\ Count(RouterNow, HandlerField) = 1


\* ------------------------------------------------------------------------
\* ToSnakeCase and ToPluralSnakeCase (common package) called on names
\* ------------------------------------------------------------------------

\* most runes of a name
MaxRunes == 3

\* the runes of a name, as bytes: ASCII letters and the two-byte letters
NameRunes ==
    {<<"U">>, <<"u">>, <<"s">>, <<"y">>, <<Lead, UpperTail>>, <<Lead, LowerTail>>}

UserID == <<"U", "s", "e", "r", "I", "D">>
Category == <<"C", "a", "t", "e", "g", "o", "r", "y">>
Bus == <<"B", "u", "s">>

\* the names the functions are called on: valid UTF-8
Names ==
    {Flatten(rs) : rs \in SeqsUpTo(NameRunes, MaxRunes)}
        \cup {UserID, Category, Bus}

InitNames ==
    /\ run \in {[s |-> s] : s \in Names}
    /\ op = NoOp
    /\ pc = "idle"
    /\ files = <<>>
    /\ pre = <<>>
    /\ dirs = <<>>

ToSnakeCaseCall ==
    /\ op' = [name |-> "ToSnakeCase", s |-> run.s, result |-> ToSnakeCase(run.s)]
    /\ UNCHANGED <<files, pre, pc, run, dirs>>

ToPluralSnakeCaseCall ==
    /\ op' = [name |-> "ToPluralSnakeCase", s |-> run.s,
              result |-> ToPluralSnakeCase(run.s)]
    /\ UNCHANGED <<files, pre, pc, run, dirs>>

NextNames == ToSnakeCaseCall \/ ToPluralSnakeCaseCall

SpecNames == InitNames /\ [][NextNames]_vars

\* ------------------------------------------------------------------------
\* Claims about ToSnakeCase and ToPluralSnakeCase
\* ------------------------------------------------------------------------

\* the rune at byte i is a lower-case letter
IsLowerRune(s, i) ==
    \/ s[i] \in LowerLetters
    \/ (RuneLen(s, i) = 2 /\ s[i+1] = LowerTail)

\* the first byte of the rune before the one at byte i, of the rune after it
PrevRune(s, i) == IF RuneStart(s, i - 1) THEN i - 1 ELSE i - 2
NextRune(s, i) == i + RuneLen(s, i)

\* the snake case of s by the rule on letters: every upper-case letter in
\* lower case, with '_' before it when it is not the first character and the
\* letter before it or the letter after it is a lower-case letter
SnakeByLetters(s) ==
    Flatten([i \in 1..Len(s) |->
        IF ~RuneStart(s, i) THEN <<>>
        ELSE IF IsUpper(s, i)
        THEN (IF /\ i > 1
                 /\ \/ IsLowerRune(s, PrevRune(s, i))
                    \/ (NextRune(s, i) <= Len(s) /\ IsLowerRune(s, NextRune(s, i)))
              THEN <<"_">> ELSE <<>>) \o ToLower(s, i)
        ELSE SubSeq(s, i, i + RuneLen(s, i) - 1)])

\* the plural by the rule: 'y' to 'ies', 'es' after 's', 's' otherwise
PluralOf(snake) ==
    IF HasSuffix(snake, "y")
    THEN SubSeq(snake, 1, Len(snake) - 1) \o <<"i", "e", "s">>
    ELSE IF HasSuffix(snake, "s") THEN snake \o <<"e", "s">>
    ELSE snake \o <<"s">>

\* every byte of s is an ASCII letter
IsAscii(s) == \A i \in 1..Len(s) : s[i] \notin {Lead, UpperTail, LowerTail}

\* C21: ToSnakeCase lower-cases every upper-case letter and puts '_' before
\* one that is not the first character and is preceded or followed by a
\* lower-case letter; ToPluralSnakeCase is ToSnakeCase with the plural
\* ending; "UserID" gives "user_id", "Category" gives "categories" and "Bus"
\* gives "buses".
C21_SnakeCaseByLetters ==
    /\ op.name = "ToSnakeCase" =>
           /\ op.result = SnakeByLetters(op.s)
           /\ op.s = UserID => op.result = <<"u", "s", "e", "r", "_", "i", "d">>
    /\ op.name = "ToPluralSnakeCase" =>
           /\ op.result = PluralOf(SnakeByLetters(op.s))
           /\ op.s = Category =>
                  op.result = <<"c", "a", "t", "e", "g", "o", "r", "i", "e", "s">>
           /\ op.s = Bus => op.result = <<"b", "u", "s", "e", "s">>

\* C21 on names of ASCII letters, the three examples among them: there the
\* byte before and the byte after a letter are the letters next to it
C21_SnakeCaseOfAsciiNames ==
    (op.name \in {"ToSnakeCase", "ToPluralSnakeCase"} /\ IsAscii(op.s)) =>
        C21_SnakeCaseByLetters

\* the three examples have been computed
C21_AsciiWitness ==
    /\ op.name = "ToPluralSnakeCase"
    /\ op.s = Category
    /\ op.result = <<"c", "a", "t", "e", "g", "o", "r", "i", "e", "s">>


\* ------------------------------------------------------------------------
\* updateHandlerFile and generateDefaultSwaggerComments
\* (cmd/sync_router.go:158-265)
\* ------------------------------------------------------------------------

\* A handler file is [exists, lines, nl]: its lines as bufio.Scanner splits
\* them, and whether its last line ends with a newline.  A line is a record:
\*   [kind |-> "func", handler, function]   one the regular expression of
\*                                          line 171 matches
\*   [kind |-> "router", path, verb]        "// @Router       <path> [<verb>]"
\*   [kind |-> "comment", text]             another line that starts with //
\*   [kind |-> "code"]                      any other line
FuncLine(handler, function) ==
    [kind |-> "func", handler |-> handler, function |-> function]
RouterLine(path, verb) == [kind |-> "router", path |-> path, verb |-> verb]
CommentLine(text) == [kind |-> "comment", text |-> text]
CodeLine == [kind |-> "code"]

\* RouteInfo, and the key it is stored under in the route map
RouteInfo(method, path, handler, function) ==
    [HTTPMethod |-> method, Path |-> path, Handler |-> handler,
     Function |-> function]
RouteMapKey(handler, function) == <<handler, function>>

\* strings.ToLower on an HTTP method
ToLowerVerb(method) ==
    [GET |-> "get", POST |-> "post", PUT |-> "put", DELETE |-> "delete",
     PATCH |-> "patch", HEAD |-> "head", OPTIONS |-> "options"][method]

\* lines 210, 223, 263: the @Router line of a route
newRouterLine(routeInfo) ==
    RouterLine(routeInfo.Path, ToLowerVerb(routeInfo.HTTPMethod))

\* Handler and function names are sequences of capitalised words.
\* strings.TrimSuffix(name, "Handler")
TrimHandlerSuffix(name) ==
    IF name # <<>> /\ name[Len(name)] = "Handler"
    THEN SubSeq(name, 1, Len(name) - 1) ELSE name

\* camelCaseToWords: a space before every upper-case letter but the first
camelCaseToWords(name) ==
    Flatten([k \in 1..Len(name) |->
        IF k > 1 THEN <<" ", name[k]>> ELSE <<name[k]>>])

\* generateDefaultSwaggerComments: the eleven lines of a new block
generateDefaultSwaggerComments(info) ==
    <<CommentLine(<<info.Function>>),
      CommentLine(<<"@Summary", camelCaseToWords(info.Function)>>),
      CommentLine(<<"@Description", camelCaseToWords(info.Function)>>),
      CommentLine(<<"@Tags", TrimHandlerSuffix(info.Handler)>>),
      CommentLine(<<"@Accept", "json">>),
      CommentLine(<<"@Produce", "json">>),
      CommentLine(<<"@Param", "id">>),
      CommentLine(<<"@Success", "200">>),
      CommentLine(<<"@Failure", "400">>),
      CommentLine(<<"@Failure", "500">>),
      newRouterLine(info)>>

\* An element of the slices `lines` and `newLines` is a string that may have
\* come to hold a "\n" (line 225): the sequence of the file lines it makes
\* when written.
\* strings.HasPrefix(strings.TrimSpace(e), "//")
IsCommentElement(e) == Head(e).kind \in {"comment", "router"}
\* strings.HasPrefix(strings.TrimSpace(e), "// @Router")
IsRouterElement(e) == Head(e).kind = "router"

\* lines 187-199: the start of the comment block that ends at 0-based index
\* i - 1, or -1
commentBlockStart(lines, i) ==
    LET stops == {j \in 0..(i - 1) : ~IsCommentElement(lines[j + 1])}
    IN  IF i = 0 THEN -1
        ELSE IF stops = {} THEN 0
        ELSE (CHOOSE j \in stops : \A k \in stops : k <= j) + 1

\* lines 208-218: the 0-based index of the first @Router element of the
\* block, or -1
firstRouterTag(lines, start, end) ==
    LET tags == {j \in start..end : IsRouterElement(lines[j + 1])}
    IN  IF tags = {} THEN -1
        ELSE CHOOSE j \in tags : \A k \in tags : j <= k

\* lines 238-242: strings.Join of `lines` when `newLines` is as long as it,
\* of `newLines` otherwise
WrittenLines(lines, newLines) ==
    IF Len(newLines) = Len(lines) THEN Flatten(lines) ELSE Flatten(newLines)

RECURSIVE scanLines(_, _, _, _, _)
\* lines 176-233: the loop, from 0-based index i, over the slices `lines` and
\* `newLines` and the flag `changed`
scanLines(i, lines, newLines, changed, routes) ==
    IF i >= Len(lines)
    THEN [lines |-> lines, newLines |-> newLines, changed |-> changed]
    ELSE
    LET line == lines[i + 1]
        key  == IF Head(line).kind = "func"
                THEN RouteMapKey(Head(line).handler, Head(line).function)
                ELSE <<>>
        end   == i - 1
        start == commentBlockStart(lines, i)
    IN  IF ~(Head(line).kind = "func" /\ key \in DOMAIN routes)
        THEN scanLines(i + 1, lines, Append(newLines, line), changed, routes)
        ELSE IF start = -1 \/ start > end
        THEN scanLines(i + 1, lines,
                       Append(newLines \o [k \in 1..11 |->
                                  <<generateDefaultSwaggerComments(routes[key])[k]>>],
                              line),
                       TRUE, routes)
        ELSE
        LET tag  == firstRouterTag(lines, start, end)
            want == <<newRouterLine(routes[key])>>
        IN  IF tag # -1
            THEN scanLines(i + 1,
                           [lines EXCEPT ![tag + 1] = want],
                           Append(newLines, line),
                           changed \/ lines[tag + 1] # want, routes)
            ELSE scanLines(i + 1,
                           [lines EXCEPT ![end + 1] = @ \o want],
                           Append(newLines, line), TRUE, routes)

\* updateHandlerFile on a file that opens: [changed, file]
updateHandlerFile(f, routes) ==
    LET lines == [k \in 1..Len(f.lines) |-> <<f.lines[k]>>]
        r     == scanLines(0, lines, <<>>, FALSE, routes)
    IN  IF r.changed
        THEN [changed |-> TRUE,
              file |-> [exists |-> TRUE,
                        lines |-> WrittenLines(r.lines, r.newLines),
                        nl |-> FALSE]]
        ELSE [changed |-> FALSE, file |-> f]

\* most lines of a handler file
MaxLines == 3

\* the lines handler files are made of
HandlerLines ==
    {FuncLine(<<"Widget", "Handler">>, <<"Create">>),
     FuncLine(<<"Widget", "Handler">>, <<"List">>),
     CommentLine(<<"doc">>), RouterLine("/w", "post"), RouterLine("/old", "get"),
     CodeLine}

\* a file declares a method once
DeclaredOnce(ls) ==
    \A i, j \in 1..Len(ls) : (ls[i].kind = "func" /\ ls[i] = ls[j]) => i = j

HandlerFiles ==
    {[exists |-> TRUE, lines |-> ls, nl |-> nl] :
        ls \in {l \in SeqsUpTo(HandlerLines, MaxLines) : DeclaredOnce(l)},
        nl \in BOOLEAN}
        \cup {[exists |-> FALSE, lines |-> <<>>, nl |-> FALSE]}

\* the route maps parseRoutes hands over: never empty (line 55)
RouteMaps ==
    LET create == RouteInfo("POST", "/w", <<"Widget", "Handler">>, <<"Create">>)
        list   == RouteInfo("GET", "/w", <<"Widget", "Handler">>, <<"List">>)
    IN  {(RouteMapKey(<<"Widget", "Handler">>, <<"Create">>) :> create),
         (RouteMapKey(<<"Widget", "Handler">>, <<"Create">>) :> create)
             @@ (RouteMapKey(<<"Widget", "Handler">>, <<"List">>) :> list)}

InitSync ==
    /\ files \in [{"handler"} -> HandlerFiles]
    /\ pre = files
    /\ op = NoOp
    /\ pc = "idle"
    /\ run \in {[routes |-> rm, n |-> 0] : rm \in RouteMaps}
    /\ dirs = <<>>

\* updateHandlerFile(path, routes): os.Open fails on a missing file
UpdateHandlerFileCall ==
    /\ run.n < MaxRuns
    /\ pre' = files
    /\ run' = [run EXCEPT !.n = @ + 1]
    /\ IF ~files["handler"].exists
       THEN /\ op' = [name |-> "updateHandlerFile", err |-> TRUE, changed |-> FALSE]
            /\ files' = files
       ELSE LET r == updateHandlerFile(files["handler"], run.routes)
            IN  /\ op' = [name |-> "updateHandlerFile", err |-> FALSE,
                          changed |-> r.changed]
                /\ files' = [files EXCEPT !["handler"] = r.file]
    /\ UNCHANGED <<pc, dirs>>

NextSync == UpdateHandlerFileCall

SpecSync == InitSync /\ [][NextSync]_vars

\* ------------------------------------------------------------------------
\* Claims about updateHandlerFile
\* ------------------------------------------------------------------------

\* updateHandlerFile has returned without error
SyncReturned == op.name = "updateHandlerFile" /\ ~op.err

\* the lines of the handler file
HandlerNow == files["handler"].lines

\* line i of ls declares a method that has a route
RoutedMethod(ls, i) ==
    /\ ls[i].kind = "func"
    /\ RouteMapKey(ls[i].handler, ls[i].function) \in DOMAIN run.routes

\* the comment lines directly above line i of ls
BlockAbove(ls, i) ==
    {j \in 1..(i - 1) :
        \A k \in j..(i - 1) : ls[k].kind \in {"comment", "router"}}

\* the method at line i of ls has a comment block with the @Router line of
\* its route
Documented(ls, i) ==
    \E j \in BlockAbove(ls, i) :
        ls[j] = newRouterLine(run.routes[RouteMapKey(ls[i].handler, ls[i].function)])

\* C22: after updateHandlerFile has run, every method of the file whose
\* 'Handler.Method' is a key of the route map is directly preceded by a
\* comment block that holds the '// @Router' line of its route, whether it
\* had no block, a block without @Router or a block with an outdated one.
C22_EveryRoutedMethodDocumented ==
    SyncReturned =>
        \A i \in 1..Len(HandlerNow) :
            RoutedMethod(HandlerNow, i) => Documented(HandlerNow, i)

\* C27: updateHandlerFile reaches a fixed point in one run: a second run with
\* the same route map on the file the first one wrote reports no change and
\* leaves the file byte-identical.
C27_FixedPointInOneRun ==
    (SyncReturned /\ run.n = 2) => (~op.changed /\ files = pre)


\* ------------------------------------------------------------------------
\* The commands gen-api (client.go:258-318, 482-537) and gen-logic
\* (gen_logic.go:92-196), from the git check to the commit
\* ------------------------------------------------------------------------

\* what git status --porcelain gave: [err, output]
GitStatus(err, output) == [err |-> err, output |-> output]
GitStatuses ==
    {GitStatus(FALSE, <<>>), GitStatus(FALSE, <<" M main.go">>), GitStatus(TRUE, <<>>)}

\* a mutant of isGitClean: every status counts as clean
isGitCleanAlways(status) == TRUE

\* isGitClean: clean when the status cannot be read or is empty
isGitClean(status) == IF status.err THEN TRUE ELSE Len(status.output) = 0

\* An LLM response is a sequence of tokens [t, v]: white space, the opening
\* fence with the word json, the bare fence, prose, a truncated object, or a whole
\* JSON object with the value v it decodes to.
Tok(t) == [t |-> t, v |-> <<>>]
JsonObject(v) == [t |-> "object", v |-> v]

\* strings.TrimSpace
TrimSpace(s) ==
    LET ink == {i \in 1..Len(s) : s[i].t # "ws"}
    IN  IF ink = {} THEN <<>>
        ELSE SubSeq(s, CHOOSE i \in ink : \A j \in ink : i <= j,
                       CHOOSE i \in ink : \A j \in ink : j <= i)

\* strings.TrimPrefix(s, fence with the word json)
TrimFencePrefix(s) ==
    IF s # <<>> /\ s[1].t = "fence json" THEN Tail(s) ELSE s

\* strings.TrimSuffix(s, fence): the opening fence with the word json does
\* not end with the fence
TrimFenceSuffix(s) ==
    IF s # <<>> /\ s[Len(s)].t = "fence" THEN SubSeq(s, 1, Len(s) - 1) ELSE s

\* lines 528-530: the response without white space around it and without the
\* fence
cleanedResponse(llmResponse) ==
    TrimFenceSuffix(TrimFencePrefix(TrimSpace(llmResponse)))

\* json.Unmarshal into the snippets struct: one object, white space around
\* it allowed
Unmarshal(s) ==
    LET ink == SelectSeq(s, LAMBDA tok : tok.t # "ws")
    IN  IF Len(ink) = 1 /\ ink[1].t = "object"
        THEN [err |-> FALSE, v |-> ink[1].v]
        ELSE [err |-> TRUE, v |-> <<>>]

\* the responses of the LLM for the value v: the bare object, the
\* object in a json fence, the same with white space around, the object in a
\* fence without the word json, prose before the object, a truncated object,
\* nothing
Responses(v) ==
    {<<JsonObject(v)>>,
     <<Tok("fence json"), Tok("ws"), JsonObject(v), Tok("ws"), Tok("fence")>>,
     <<Tok("ws"), Tok("fence json"), JsonObject(v), Tok("fence"), Tok("ws")>>,
     <<Tok("fence"), Tok("ws"), JsonObject(v), Tok("ws"), Tok("fence")>>,
     <<Tok("text"), JsonObject(v)>>,
     <<Tok("{")>>,
     <<>>}

\* files that are no source of the project: the prompt saved with --markdown
\* and the saved raw response
PromptFile == <<"gen-prompt.md">>
DebugFile == <<"llm_error_response.txt">>

\* os.WriteFile on a path of the working directory, made when missing
WriteNew(fs, path, data) ==
    LET f == IF path \in DOMAIN fs THEN fs[path] ELSE Absent("rw")
    IN  (path :> WriteFile(f, data).file) @@ fs

\* what a step of a command reports in op
CommandOp(cmd, step, err, done) ==
    [name |-> cmd, step |-> step, err |-> err, done |-> done]

\* the injection or the merge of the running command has returned
InjectionReturned ==
    /\ "cmd" \in DOMAIN run
    /\ op.name \in {"injectGeneratedCode", "applyGeneratedCode"}
    /\ op.done

\* lines 259-263 of client.go, 93-96 of gen_logic.go: the command stops on a
\* dirty working tree
GitCheck(kind, cmd) ==
    /\ pc = "idle"
    /\ run.kind = kind
    /\ run.n < MaxRuns
    /\ ~InjectionReturned
    /\ \E status \in GitStatuses :
        /\ run' = [kind |-> kind, n |-> run.n + 1, entity |-> run.entity,
                   cmd |-> cmd, git |-> status, tree |-> files,
                   inputs |-> FALSE, markdown |-> FALSE, response |-> <<>>]
        /\ pc' = IF isGitClean(status) THEN "mode" ELSE "idle"
        /\ op' = CommandOp(cmd, "isGitClean", ~isGitClean(status), ~isGitClean(status))
    /\ pre' = files
    /\ UNCHANGED <<files, dirs>>

ApiGitCheck == GitCheck("inject", "gen-api")

\* lines 268-287: the inputs are resolved in one of the four modes; in the
\* direct mode a missing prompt stops the command before the error is looked
\* at
ApiResolve ==
    /\ pc = "mode"
    /\ run.cmd = "gen-api"
    /\ \E direct \in BOOLEAN, hasPrompt \in BOOLEAN, markdown \in BOOLEAN,
          err \in BOOLEAN, method \in Methods :
        LET stop == (direct /\ ~hasPrompt /\ ~markdown) \/ err
        IN  /\ run' = [run EXCEPT !.inputs = ~stop, !.markdown = markdown /\ ~stop]
                          @@ [info |-> buildApiInfo(run.entity, method)]
            /\ pc' = IF stop THEN "idle" ELSE "llm"
            /\ op' = CommandOp("gen-api", "mode", stop, stop)
    /\ pre' = files
    /\ UNCHANGED <<files, dirs>>

\* generateCodeWithLLM and lines 289-298 of runGenApi: the entity file is
\* read, the prompt is saved and the command ends with --markdown, the LLM is
\* asked and its response decoded
ApiLLM ==
    /\ pc = "llm"
    /\ run.cmd = "gen-api"
    /\ \E found \in BOOLEAN, apiErr \in BOOLEAN, v \in InjectSnippets :
       \E llmResponse \in Responses(v) :
        LET decoded == Unmarshal(cleanedResponse(llmResponse))
        IN  IF ~found
            THEN /\ op' = CommandOp("gen-api", "findEntityContent", TRUE, TRUE)
                 /\ pc' = "idle"
                 /\ UNCHANGED <<files, run>>
            ELSE IF run.markdown
            THEN /\ files' = WriteNew(files, PromptFile, <<"prompt">>)
                 /\ op' = CommandOp("gen-api", "markdown", FALSE, TRUE)
                 /\ pc' = "idle"
                 /\ UNCHANGED run
            ELSE IF apiErr
            THEN /\ op' = CommandOp("gen-api", "GenWithDefaultLLM", TRUE, TRUE)
                 /\ pc' = "idle"
                 /\ UNCHANGED <<files, run>>
            ELSE /\ run' = [run EXCEPT !.response = llmResponse]
                               @@ [snippets |-> decoded.v]
                 /\ op' = CommandOp("gen-api", "json.Unmarshal", decoded.err, decoded.err)
                 /\ pc' = IF decoded.err THEN "idle" ELSE "inject"
                 /\ UNCHANGED files
    /\ pre' = files
    /\ UNCHANGED dirs

\* line 300 of runGenApi, lines 539-543 of injectGeneratedCode: the
\* injection starts with the decoded fragments
ApiInject ==
    /\ pc = "inject"
    /\ LET paths == GetProjectPaths(dirs)
       IN  /\ run' = run @@ [paths |-> paths, start |-> files, k |-> 0,
                             again |-> FALSE]
           /\ pc' = IF paths.err THEN "idle" ELSE "mapper"
           /\ op' = InjectOp(StepPaths, paths.err, paths.err)
    /\ pre' = files
    /\ UNCHANGED <<files, dirs>>

\* lines 300-315 of runGenApi: after the injection a failure is reported, or
\* the tree is formatted and committed
ApiFinish ==
    /\ pc = "idle"
    /\ run.kind = "inject"
    /\ InjectionReturned
    /\ \E installed \in BOOLEAN, commitErr \in BOOLEAN :
        IF op.err
        THEN /\ op' = CommandOp("gen-api", "injectGeneratedCode", TRUE, TRUE)
             /\ UNCHANGED files
        ELSE /\ files' = IF installed THEN FormatTree(files) ELSE files
             /\ op' = CommandOp("gen-api", "gitCommit", commitErr, TRUE)
    /\ pre' = files
    /\ UNCHANGED <<pc, run, dirs>>

LogicGitCheck == GitCheck("logic", "gen-logic")

\* lines 100-117 of gen_logic.go: the inputs are resolved in one of the three
\* modes
LogicResolve ==
    /\ pc = "mode"
    /\ run.cmd = "gen-logic"
    /\ \E err \in BOOLEAN, markdown \in BOOLEAN, method \in Methods :
        LET info == buildLogicAdditionInfo(run.entity, method, dirs)
            stop == err \/ info.err
        IN  /\ run' = [run EXCEPT !.inputs = ~stop, !.markdown = markdown /\ ~stop]
                          @@ [info |-> info]
            /\ pc' = IF stop THEN "idle" ELSE "llm"
            /\ op' = CommandOp("gen-logic", "mode", stop, stop)
    /\ pre' = files
    /\ UNCHANGED <<files, dirs>>

\* the two answers of the LLM that are explored for gen-logic
LogicAnswers(info) ==
    {sn \in LogicSnippets(info) :
        \/ /\ ~sn.ModifiedHandlerMethod.empty
           /\ ~sn.ModifiedServiceImplMethod.empty
           /\ ~sn.ModifiedRepoImplMethod.empty
           /\ sn.NewRepoInterfaceMethod # <<>>
        \/ /\ ~sn.ModifiedHandlerMethod.empty
           /\ sn.ModifiedServiceImplMethod.empty
           /\ sn.ModifiedRepoImplMethod.empty
           /\ sn.NewRepoInterfaceMethod = <<>>}

\* lines 119-144 of runGenLogic and generateModifiedCodeWithLLM: the prompt
\* is built, saved with --markdown, or sent; a response that does not decode
\* is saved for diagnosis
LogicLLM ==
    /\ pc = "llm"
    /\ run.cmd = "gen-logic"
    /\ \E promptErr \in BOOLEAN, apiErr \in BOOLEAN, v \in LogicAnswers(run.info) :
       \E llmResponse \in Responses(v) :
        LET decoded == Unmarshal(cleanedResponse(llmResponse))
        IN  IF promptErr
            THEN /\ op' = CommandOp("gen-logic", "buildPromptFromInfo", TRUE, TRUE)
                 /\ pc' = "idle"
                 /\ UNCHANGED <<files, run>>
            ELSE IF run.markdown
            THEN /\ files' = WriteNew(files, PromptFile, <<"prompt">>)
                 /\ op' = CommandOp("gen-logic", "markdown", FALSE, TRUE)
                 /\ pc' = "idle"
                 /\ UNCHANGED run
            ELSE IF apiErr
            THEN /\ op' = CommandOp("gen-logic", "GenWithDefaultLLM", TRUE, TRUE)
                 /\ pc' = "idle"
                 /\ UNCHANGED <<files, run>>
            ELSE /\ run' = [run EXCEPT !.response = llmResponse]
                               @@ [snippets |-> decoded.v]
                 /\ op' = CommandOp("gen-logic", "json.Unmarshal", decoded.err, decoded.err)
                 /\ pc' = IF decoded.err THEN "idle" ELSE "apply"
                 /\ files' = IF decoded.err /\ llmResponse # <<>>
                             THEN WriteNew(files, DebugFile, <<"raw response">>)
                             ELSE files
    /\ pre' = files
    /\ UNCHANGED dirs

\* line 146 of runGenLogic, lines 399-410 of applyGeneratedCode: the merge
\* starts with the decoded fragments
LogicApply ==
    /\ pc = "apply"
    /\ run' = run @@ [start |-> files, k |-> 1]
    /\ pc' = "merge"
    /\ op' = LogicOp(0, FALSE, FALSE)
    /\ pre' = files
    /\ UNCHANGED <<files, dirs>>

\* lines 146-160 of runGenLogic: after the merge a failure is reported and
\* the raw response saved, or the tree is formatted and committed
LogicFinish ==
    /\ pc = "idle"
    /\ run.kind = "logic"
    /\ InjectionReturned
    /\ \E installed \in BOOLEAN, commitErr \in BOOLEAN :
        IF op.err
        THEN /\ op' = CommandOp("gen-logic", "applyGeneratedCode", TRUE, TRUE)
             /\ files' = WriteNew(files, DebugFile, <<"raw response">>)
        ELSE /\ files' = IF installed THEN FormatTree(files) ELSE files
             /\ op' = CommandOp("gen-logic", "gitCommit", commitErr, TRUE)
    /\ pre' = files
    /\ UNCHANGED <<pc, run, dirs>>

\* the working trees of gen-api: a DDD project or a directory that is no
\* project, for one entity, with every state of the mapper, the router and
\* the handler file
InitApiCommand ==
    \E application \in BOOLEAN, mapper \in MapperStates :
        LET entity == <<"U">>
            info   == buildApiInfo(entity, CHOOSE m \in Methods : TRUE)
        IN  /\ dirs = Dirs(application, FALSE, mapper.dto)
            /\ \E router \in RouterStates(info), handler \in AppendedStates :
                    files = InjectTree(dirs, info, mapper.file, router,
                                Present("rw", <<"type ">> \o entity
                                    \o <<"Repository interface", " ", "{", "\n", "}">>),
                                Present("rw", <<"package p">>),
                                Present("rw", <<"type ">> \o entity
                                    \o <<"Service interface", " ", "{", "\n", "}">>),
                                handler)
            /\ run = [kind |-> "inject", n |-> 0, entity |-> entity]
            /\ pre = files
            /\ op = NoOp
            /\ pc = "idle"

\* the working trees of the commands; those of gen-logic are the DDD
\* projects of one entity
InitCommand ==
    \/ InitApiCommand
    \/ (InitLogic /\ run.entity = <<"U">> /\ ~dirs.usecase)

NextCommand ==
    \/ ApiGitCheck
    \/ ApiResolve
    \/ ApiLLM
    \/ ApiInject
    \/ InjectMapper
    \/ InjectGroup
    \/ InjectTask
    \/ ApiFinish
    \/ LogicGitCheck
    \/ LogicResolve
    \/ LogicLLM
    \/ LogicApply
    \/ LogicMerge
    \/ LogicInterface
    \/ LogicFinish

SpecCommand == InitCommand /\ [][NextCommand]_vars


\* ------------------------------------------------------------------------
\* Claims about the commands
\* ------------------------------------------------------------------------

\* the source files of the project: the tree the command started on, without
\* the saved prompt and the saved response
SourcePaths == DOMAIN run.tree \ {PromptFile, DebugFile}

\* the running (or last) command has modified a source file
SourceModified ==
    /\ "cmd" \in DOMAIN run
    /\ \E p \in SourcePaths : files[p] # run.tree[p]

\* the git status was empty or could not be read, the inputs were resolved
\* without error, and the response without its fence decoded as JSON
GatesPassed ==
    /\ (run.git.err \/ run.git.output = <<>>)
    /\ run.inputs
    /\ ~Unmarshal(cleanedResponse(run.response)).err

\* the command has just stopped on a response that did not decode
MalformedResponse ==
    /\ op.name \in {"gen-api", "gen-logic"}
    /\ op.step = "json.Unmarshal"
    /\ op.err

\* C23: in a gen-api or gen-logic run no source file of the project is
\* modified before the git working tree was reported clean (or its status
\* could not be read), the inputs were resolved without error and the LLM
\* response decoded as JSON after its optional code fence was stripped; a
\* malformed response ends the run with every target file untouched.
C23_NoWriteBeforeGates ==
    /\ SourceModified => GatesPassed
    /\ MalformedResponse => (pc = "idle" /\ op.done /\ ~SourceModified)

\* C23 witness: a run whose response came in a json fence with white space
\* around it has modified source files and was committed
C23_Witness ==
    /\ SourceModified
    /\ GatesPassed
    /\ op.name = "gen-api"
    /\ op.step = "gitCommit"
    /\ run.response # <<>>
    /\ run.response[1].t = "ws"
    /\ run.response[2].t = "fence json"


\* ------------------------------------------------------------------------
\* Specification SpecGenerateCode: generateCode on every tree of targets
\* ------------------------------------------------------------------------

\* a target before the call: missing, generated earlier, generated earlier
\* and read-only
TargetStates == {Absent("rw"), Present("rw", <<"old">>), Present("ro", <<"old">>)}

\* the entity generateCode is called for: the descriptor parseEntityFile
\* gives for a struct with a primary key
GenInfo(entity) ==
    parseEntityFile(
        EntitySource(<<StructType(entity, <<StructField(<<"I">>, TRUE)>>)>>, <<>>),
        "module")

\* the targets of the layout, and the mapper file of the other layout
TargetPaths(paths, info) ==
    {TaskPath(GenerationTasks(paths)[k], info) : k \in 1..Len(GenerationTasks(paths))}
        \cup {MapperPath(info)}

\* runGenerate has parsed the entity file and is about to call generateCode
InitGenerateCode ==
    \E entity \in GenEntities, application \in BOOLEAN, forceGenerate \in BOOLEAN,
       dto \in {"none", "dir", "blocked"} :
      LET d     == Dirs(application, ~application, dto)
          paths == PathConfig(d)
          info  == GenInfo(entity)
      IN  \E tree \in [TargetPaths(paths, info) -> TargetStates] :
            /\ dirs = d
            /\ files = tree
            /\ run = [kind |-> "generate", n |-> 1, entity |-> entity, api |-> 0,
                      info |-> info, paths |-> paths, forceGenerate |-> forceGenerate,
                      NoCrudMethods |-> FALSE, start |-> tree]
            /\ pre = tree
            /\ op = GenOp("parseEntityFile", FALSE, FALSE)
            /\ pc = "generateCode"

NextGenerateCode == GenCode

SpecGenerateCode == InitGenerateCode /\ [][NextGenerateCode]_vars

\* generateCode has returned
CodeGenerated == pc = "addProviderToDI" /\ op.step = "generateCode"

\* the tasks of the run
RunTasks == GenerationTasks(run.paths)

\* the target of task k
TargetOf(k) == TaskPath(RunTasks[k], run.info)

\* task k met a failure: its directory could not be made or its file could
\* not be written
TaskFailed(k) ==
    \/ RunTasks[k].OutputDir = "internal/interfaces/dto" /\ dirs.dto = "blocked"
    \/ pre[TargetOf(k)].perm = "ro"

\* task k was skipped because its target exists and --force is not set
TaskSkipped(k) == pre[TargetOf(k)].exists /\ ~run.forceGenerate

\* C25: when generateCode has returned, a target that existed is as it was
\* unless --force was set; a target that was processed without a failure,
\* because it was missing or because --force was set, holds exactly the
\* rendered template, whatever happened to the targets before it; a target
\* whose task failed is as it was; every file that is no target is as it was.
C25_ExistingKeptUnlessForced ==
    CodeGenerated =>
        /\ \A k \in 1..Len(RunTasks) :
             LET p == TargetOf(k)
             IN  /\ TaskSkipped(k) => files[p] = pre[p]
                 /\ (~TaskSkipped(k) /\ ~TaskFailed(k)) =>
                        /\ files[p].exists
                        /\ files[p].content = ExecuteTemplate(RunTasks[k], run.info)
                 /\ TaskFailed(k) => files[p] = pre[p]
        /\ \A p \in DOMAIN files :
             (\A k \in 1..Len(RunTasks) : TargetOf(k) # p) => files[p] = pre[p]

\* C25 witness: generateCode has returned from a run without --force in
\* which the first target existed and was kept, a later task on a missing
\* target failed, and the missing target of the last task was created.
C25_Witness ==
    /\ CodeGenerated
    /\ ~run.forceGenerate
    /\ pre[TargetOf(1)].exists
    /\ files[TargetOf(1)] = pre[TargetOf(1)]
    /\ \E k \in 2..(Len(RunTasks) - 1) :
           /\ ~pre[TargetOf(k)].exists
           /\ TaskFailed(k)
           /\ ~files[TargetOf(k)].exists
    /\ ~pre[TargetOf(Len(RunTasks))].exists
    /\ files[TargetOf(Len(RunTasks))].exists


\* ------------------------------------------------------------------------
\* Specification SpecTable: generate and gen-api runs for entities whose
\* names end in different letters
\* ------------------------------------------------------------------------

\* the entity names: one ending in a capital, one in s, one in y
TableEntities == {<<"U">>, Bus, Category}

\* a scaffolded project with go.mod and an entity file that declares the
\* struct with its primary key and no TableName method
InitTable ==
    \E entity \in TableEntities, application \in BOOLEAN, generated \in BOOLEAN :
      LET source == EntitySource(<<StructType(entity, <<StructField(<<"I">>, TRUE)>>)>>,
                                 <<>>)
      IN  /\ dirs = Dirs(application, ~application, "none")
          /\ files = GenerateTree(dirs, entity, source, Present("rw", <<"module m">>),
                                  DIScaffold, RouterScaffold, generated)
          /\ run = [kind |-> "none", n |-> 0, entity |-> entity, api |-> 0]
          /\ pre = files
          /\ op = NoOp
          /\ pc = "idle"

SpecTable == InitTable /\ [][NextGenerate]_vars

\* a gen-api run has returned without an error, and it started on a tree in
\* which a generate run had written E's routes
GenApiAfterGenerate ==
    /\ run.kind = "inject"
    /\ pc = "idle"
    /\ op.done
    /\ ~op.err
    /\ Contains(run.start[RouterPath(run.paths)].content, CrudRoutes(TreeInfo))

\* the group definitions of E in the router file
GroupDefinitions ==
    Count(RouterNow, TreeInfo.LowerEntityName \o <<"Routes := apiV1.Group(/">>)

\* C26 (as claimed): the table name a generate run derives for an entity
\* without a TableName method is the one gen-api derives for it, and after
\* generate followed by gen-api the router file holds exactly one group
\* definition of the entity.
C26_OneGroupDefinition ==
    /\ (Generating /\ ~run.info.err) =>
           \A method \in Methods :
               run.info.TableName = buildApiInfo(run.entity, method).TableName
    /\ GenApiAfterGenerate => GroupDefinitions = 1

\* the snake-case name of the entity ends in neither s nor y
RegularPlural ==
    /\ ~HasSuffix(ToSnakeCase(run.entity), "s")
    /\ ~HasSuffix(ToSnakeCase(run.entity), "y")

\* C26, for the names the two derivations agree on: when the snake-case name
\* ends in neither s nor y both commands derive the same table name and the
\* router file holds one group definition.
C26_RegularNames == RegularPlural => C26_OneGroupDefinition


\* ------------------------------------------------------------------------
\* Specification SpecAnchor: generate and gen-api runs on a project whose DI
\* file or router file may have lost the generator anchor
\* ------------------------------------------------------------------------

\* internal/di/container.go after the anchor comment was removed
DINoAnchor ==
    Present("rw", <<"package di", "\n", "var ProviderSet = wire.NewSet(", "\n", ")">>)

\* router.go after the anchor comment was removed
RouterNoAnchor ==
    Present("rw", RouterDecls \o RouterOpen \o ApiV1Anchor \o RouterClose)

InitAnchor ==
    \E entity \in GenEntities, application \in BOOLEAN, generated \in BOOLEAN,
       di \in {DIScaffold, DINoAnchor}, router \in {RouterScaffold, RouterNoAnchor} :
      LET source == EntitySource(<<StructType(entity, <<StructField(<<"I">>, TRUE)>>)>>,
                                 <<>>)
      IN  /\ dirs = Dirs(application, ~application, "none")
          /\ files = GenerateTree(dirs, entity, source, Present("rw", <<"module m">>),
                                  di, router, generated)
          /\ run = [kind |-> "none", n |-> 0, entity |-> entity, api |-> 0]
          /\ pre = files
          /\ op = NoOp
          /\ pc = "idle"

SpecAnchor == InitAnchor /\ [][NextGenerate]_vars

\* C28 (as claimed): in a generate run on a tree no gen-api run has touched,
\* when addProviderToDI has returned without an error the DI file holds the
\* marker of E and E's three constructors, and when addRoutesToRouter has
\* returned without an error the router file holds E's route block.
C28_SuccessMeansBlock ==
    /\ StepDone("addProviderToDI") => Contains(DINow, ProviderLines)
    /\ StepDone("addRoutesToRouter") => Contains(RouterNow, RouteLines)

\* the tree the run started on held the anchor in both files
StartedWithAnchors ==
    /\ Contains(run.start[DIPath(run.paths)].content, GeneratorAnchor)
    /\ Contains(run.start[RouterPath(run.paths)].content, GeneratorAnchor)

\* C28, for files that hold the anchor: a run that started on a tree with
\* the anchor in both files leaves the blocks whenever the steps succeed.
C28_WithAnchors == (Generating /\ StartedWithAnchors) => C28_SuccessMeansBlock


\* ------------------------------------------------------------------------
\* pkg/logger: the global logger, its configuration and its lock
\* ------------------------------------------------------------------------
\* In the runs of the logger the variables hold
\*   run : [globalConfig, globalLogger, mu], the package variables
\*         (logger.go:17-21); mu is [w, r], the goroutine that holds the
\*         write lock ("none" when free) and the goroutines that hold a
\*         read lock
\*   pc  : the position of each goroutine
\*   op  : the locals of each goroutine, [level, w, newConfig, logger]
\* and files, pre and dirs are not used.

\* the goroutines: one calls FiberLogAdapter.SetLevel, one calls
\* FiberLogAdapter.SetOutput, one calls the package function Info
Goroutines == {"SetLevel", "SetOutput", "Info"}

\* Config (lines 46-51), without the file settings
Config(type, level, output) == [Type |-> type, Level |-> level, Output |-> output]

\* the zero Config
ZeroConfig == Config("", "", "nil")

\* newDefaultLogger (lines 232-234): writes everything to os.Stdout
newDefaultLogger == [kind |-> "default", level |-> "all", out |-> "os.Stdout"]

\* newZapLogger (lines 154-184): the level of the cores, info when the name
\* is not known, and the console writer
newZapLogger(config) ==
    [kind  |-> "zap",
     level |-> IF config.Level \in {"debug", "info", "warn", "error"}
               THEN config.Level ELSE "info",
     out   |-> IF config.Output # "nil" THEN config.Output ELSE "os.Stdout"]

globalConfig == run.globalConfig
globalLogger == run.globalLogger
mu == run.mu

\* sync.RWMutex: Lock waits for the writer and the readers to leave, RLock
\* for the writer
CanLock == mu.w = "none" /\ mu.r = {}
CanRLock == mu.w = "none"

\* the levels of fiber's log package a caller passes to SetLevel
FiberLevels == {"LevelDebug", "LevelWarn", "LevelFatal"}

\* lines 346-357: the level name of the configuration, "" in the default
\* branch
LevelOf(level) ==
    IF level \in {"LevelTrace", "LevelDebug"} THEN "debug"
    ELSE IF level = "LevelInfo" THEN "info"
    ELSE IF level = "LevelWarn" THEN "warn"
    ELSE IF level = "LevelError" THEN "error"
    ELSE ""

\* the writers a caller passes to SetOutput
Writers == {"W"}

\* the locals of a goroutine
Locals(level, w) ==
    [level |-> level, w |-> w, newConfig |-> ZeroConfig, logger |-> newDefaultLogger]

\* the package after Init(config) with a supported type, or never
\* initialised; every goroutine is about to make its call
InitLogger ==
    \E type \in {"zap", "default", ""}, level \in FiberLevels, w \in Writers :
      LET config == IF type = "" THEN ZeroConfig ELSE Config(type, "info", "nil")
      IN  /\ run = [globalConfig |-> config,
                    globalLogger |-> IF type = "zap" THEN newZapLogger(config)
                                     ELSE newDefaultLogger,
                    mu |-> [w |-> "none", r |-> {}]]
          /\ pc = [g \in Goroutines |-> IF g = "Info" THEN "RLock" ELSE "Lock"]
          /\ op = [g \in Goroutines |-> Locals(level, w)]
          /\ files = <<>>
          /\ pre = <<>>
          /\ dirs = <<>>

\* lines 342 and 362: mu.Lock() of SetLevel and SetOutput
SetLock ==
    \E g \in {"SetLevel", "SetOutput"} :
        /\ pc[g] = "Lock"
        /\ CanLock
        /\ run' = [run EXCEPT !.mu.w = g]
        /\ pc' = [pc EXCEPT ![g] = "copy"]
        /\ UNCHANGED <<op, files, pre, dirs>>

\* lines 343-357: SetLevel copies the configuration, unlocks, and sets the
\* level of its copy; an unsupported level goes to Warnw instead of Init
SetLevelCopy ==
    /\ pc["SetLevel"] = "copy"
    /\ run' = [run EXCEPT !.mu.w = "none"]
    /\ LET level == LevelOf(op["SetLevel"].level)
       IN  IF level = ""
           THEN /\ op' = [op EXCEPT !["SetLevel"].newConfig = globalConfig]
                /\ pc' = [pc EXCEPT !["SetLevel"] = "RLock"]
           ELSE /\ op' = [op EXCEPT !["SetLevel"].newConfig =
                              [globalConfig EXCEPT !.Level = level]]
                /\ pc' = [pc EXCEPT !["SetLevel"] = "Init"]
    /\ UNCHANGED <<files, pre, dirs>>

\* lines 363-366: SetOutput copies the configuration, unlocks, and sets the
\* output of its copy
SetOutputCopy ==
    /\ pc["SetOutput"] = "copy"
    /\ run' = [run EXCEPT !.mu.w = "none"]
    /\ op' = [op EXCEPT !["SetOutput"].newConfig =
                  [globalConfig EXCEPT !.Output = op["SetOutput"].w]]
    /\ pc' = [pc EXCEPT !["SetOutput"] = "Init"]
    /\ UNCHANGED <<files, pre, dirs>>

\* line 62: mu.Lock() of Init
InitLock ==
    \E g \in {"SetLevel", "SetOutput"} :
        /\ pc[g] = "Init"
        /\ CanLock
        /\ run' = [run EXCEPT !.mu.w = g]
        /\ pc' = [pc EXCEPT ![g] = "globalConfig"]
        /\ UNCHANGED <<op, files, pre, dirs>>

\* line 65: globalConfig = config
InitConfig ==
    \E g \in {"SetLevel", "SetOutput"} :
        /\ pc[g] = "globalConfig"
        /\ run' = [run EXCEPT !.globalConfig = op[g].newConfig]
        /\ pc' = [pc EXCEPT ![g] = "globalLogger"]
        /\ UNCHANGED <<op, files, pre, dirs>>

\* lines 67-78: the logger of the type is made; log.Fatalf on a type that is
\* not supported ends the program
InitNewLogger ==
    \E g \in {"SetLevel", "SetOutput"} :
        /\ pc[g] = "globalLogger"
        /\ LET config == op[g].newConfig
           IN  IF config.Type = "zap"
               THEN /\ run' = [run EXCEPT !.globalLogger = newZapLogger(config)]
                    /\ pc' = [pc EXCEPT ![g] = "Unlock"]
               ELSE IF config.Type = "default"
               THEN /\ run' = [run EXCEPT !.globalLogger = newDefaultLogger]
                    /\ pc' = [pc EXCEPT ![g] = "Unlock"]
               ELSE /\ run' = run
                    /\ pc' = [h \in Goroutines |-> "exit"]
        /\ UNCHANGED <<op, files, pre, dirs>>

\* line 63: the deferred mu.Unlock() of Init
InitUnlock ==
    \E g \in {"SetLevel", "SetOutput"} :
        /\ pc[g] = "Unlock"
        /\ run' = [run EXCEPT !.mu.w = "none"]
        /\ pc' = [pc EXCEPT ![g] = "done"]
        /\ UNCHANGED <<op, files, pre, dirs>>

\* lines 81-147: mu.RLock() of a package-level logging function
LogRLock ==
    \E g \in Goroutines :
        /\ pc[g] = "RLock"
        /\ CanRLock
        /\ run' = [run EXCEPT !.mu.r = @ \cup {g}]
        /\ pc' = [pc EXCEPT ![g] = "log"]
        /\ UNCHANGED <<op, files, pre, dirs>>

\* the call of the global logger's method
LogCall ==
    \E g \in Goroutines :
        /\ pc[g] = "log"
        /\ op' = [op EXCEPT ![g].logger = globalLogger]
        /\ pc' = [pc EXCEPT ![g] = "RUnlock"]
        /\ UNCHANGED <<run, files, pre, dirs>>

\* the deferred mu.RUnlock()
LogRUnlock ==
    \E g \in Goroutines :
        /\ pc[g] = "RUnlock"
        /\ run' = [run EXCEPT !.mu.r = @ \ {g}]
        /\ pc' = [pc EXCEPT ![g] = "done"]
        /\ UNCHANGED <<op, files, pre, dirs>>

NextLogger ==
    \/ SetLock
    \/ SetLevelCopy
    \/ SetOutputCopy
    \/ InitLock
    \/ InitConfig
    \/ InitNewLogger
    \/ InitUnlock
    \/ LogRLock
    \/ LogCall
    \/ LogRUnlock

SpecLogger == InitLogger /\ [][NextLogger]_vars

\* ------------------------------------------------------------------------
\* Claims about the logger
\* ------------------------------------------------------------------------

\* SetLevel was called with a level it supports and has returned, and
\* SetOutput has returned
BothReturned ==
    /\ pc["SetLevel"] = "done"
    /\ pc["SetOutput"] = "done"
    /\ LevelOf(op["SetLevel"].level) # ""

\* a goroutine is inside Init, between its Lock and its Unlock
Replacing == \E g \in Goroutines : pc[g] \in {"globalConfig", "globalLogger", "Unlock"}

\* a goroutine is inside a logging call, between its RLock and its RUnlock
Logging == \E g \in Goroutines : pc[g] \in {"log", "RUnlock"}

\* C29 (as claimed): when SetLevel(L) and SetOutput(W) have both returned,
\* the global configuration has level L and output W; and no logging call
\* runs while Init replaces the global logger.
C29_NoLostUpdate ==
    /\ BothReturned =>
           /\ globalConfig.Level = LevelOf(op["SetLevel"].level)
           /\ globalConfig.Output = op["SetOutput"].w
    /\ ~(Replacing /\ Logging)

\* C29, the part that holds: no logging call runs while Init replaces the
\* global logger, and Init is entered by one goroutine at a time.
C29_InitExcludesLogging ==
    /\ ~(Replacing /\ Logging)
    /\ \A g, h \in Goroutines :
           (pc[g] \in {"globalConfig", "globalLogger", "Unlock"}
               /\ pc[h] \in {"globalConfig", "globalLogger", "Unlock"}) => g = h


\* ------------------------------------------------------------------------
\* internal/llm/volc: the client and its conversation history
\* ------------------------------------------------------------------------
\* In the runs of the client the variables hold
\*   run : the client, [enableContext, contextMessages], and n, the number
\*         of calls made on it
\*   op  : the call that returned last, [name, prompt, sent, messages, err,
\*         reply]; sent tells whether a request went to the API and
\*         messages is the list the request carried
\*   pre : contextMessages before that call
\* and files, dirs and pc are not used.

\* the calls made on one client
MaxCalls == 3

\* openai.ChatCompletionMessage
Message(role, content) == [Role |-> role, Content |-> content]

\* the prompts of the callers; "" is the empty prompt
Prompts == {"", "p", "q"}

\* what CreateChatCompletion returns: an error, a response without choices,
\* a response whose first choice holds a content
ChatResponses ==
    {[err |-> TRUE, Choices |-> <<>>],
     [err |-> FALSE, Choices |-> <<>>],
     [err |-> FALSE, Choices |-> <<Message("assistant", "r")>>],
     [err |-> FALSE, Choices |-> <<Message("assistant", ""), Message("assistant", "r")>>]}

\* prepareMessages (llm_ai.go:279-289)
prepareMessages(c, prompt) ==
    (IF c.enableContext THEN c.contextMessages ELSE <<>>) \o <<Message("user", prompt)>>

\* a mutant of appendContext: the flag is not read
appendContextAlways(c, prompt, reply) ==
    [c EXCEPT !.contextMessages =
         @ \o <<Message("user", prompt), Message("assistant", reply)>>]

\* appendContext (llm_ai.go:291-298)
appendContext(c, prompt, reply) ==
    IF c.enableContext
    THEN [c EXCEPT !.contextMessages =
              @ \o <<Message("user", prompt), Message("assistant", reply)>>]
    ELSE c

\* the result of a call
Call(name, prompt, sent, messages, err, reply) ==
    [name |-> name, prompt |-> prompt, sent |-> sent, messages |-> messages,
     err |-> err, reply |-> reply]

\* the client NewClient returns, with or without the context option
InitVolc ==
    \E enableContext \in BOOLEAN :
        /\ run = [enableContext |-> enableContext, contextMessages |-> <<>>, n |-> 0]
        /\ op = Call("NewClient", "", FALSE, <<>>, FALSE, "")
        /\ pre = <<>>
        /\ pc = "idle"
        /\ files = <<>>
        /\ dirs = <<>>

\* Send (llm_ai.go:182-209)
Send ==
    /\ run.n < MaxCalls
    /\ \E prompt \in Prompts, resp \in ChatResponses :
        LET messages == prepareMessages(run, prompt)
        IN  IF prompt = ""
            THEN /\ op' = Call("Send", prompt, FALSE, <<>>, TRUE, "")
                 /\ run' = [run EXCEPT !.n = @ + 1]
            ELSE IF resp.err \/ Len(resp.Choices) = 0
            THEN /\ op' = Call("Send", prompt, TRUE, messages, TRUE, "")
                 /\ run' = [run EXCEPT !.n = @ + 1]
            ELSE /\ op' = Call("Send", prompt, TRUE, messages, FALSE,
                               resp.Choices[1].Content)
                 /\ run' = [appendContext(run, prompt, resp.Choices[1].Content)
                                EXCEPT !.n = @ + 1]
    /\ pre' = run.contextMessages
    /\ UNCHANGED <<files, dirs, pc>>

\* RefreshContext (llm_ai.go:261-263)
RefreshContext ==
    /\ run.n < MaxCalls
    /\ run' = [run EXCEPT !.contextMessages = <<>>, !.n = @ + 1]
    /\ op' = Call("RefreshContext", "", FALSE, <<>>, FALSE, "")
    /\ pre' = run.contextMessages
    /\ UNCHANGED <<files, dirs, pc>>

NextVolc ==
    \/ Send
    \/ RefreshContext

SpecVolc == InitVolc /\ [][NextVolc]_vars

\* ------------------------------------------------------------------------
\* Claims about the volc client
\* ------------------------------------------------------------------------

\* C30: with the context enabled, a Send that succeeded carried the history
\* as it was before the call followed by the prompt as a user message, and
\* the history is now the old one followed by the user prompt and the
\* assistant's reply; a Send that failed left the history as it was; after
\* RefreshContext the history is empty.  With the context disabled the
\* history is empty in every state and every request carried the prompt
\* alone.
C30_HistorySemantics ==
    /\ (run.enableContext /\ op.name = "Send" /\ ~op.err) =>
           /\ op.sent
           /\ op.messages = pre \o <<Message("user", op.prompt)>>
           /\ run.contextMessages =
                  pre \o <<Message("user", op.prompt), Message("assistant", op.reply)>>
    /\ (op.name = "Send" /\ op.err) => run.contextMessages = pre
    /\ op.name = "RefreshContext" => run.contextMessages = <<>>
    /\ ~run.enableContext =>
           /\ run.contextMessages = <<>>
           /\ pre = <<>>
           /\ op.sent => op.messages = <<Message("user", op.prompt)>>

\* C30 witness: with the context enabled a Send has succeeded on a client
\* whose history held an earlier exchange.
C30_Witness ==
    /\ run.enableContext
    /\ op.name = "Send"
    /\ ~op.err
    /\ Len(pre) >= 2
    /\ Len(run.contextMessages) = Len(pre) + 2


=============================================================================
